---- MODULE Spec2Model ----
(***************************************************************************)
(* Job-Search-App: the request pipeline (identity verification, validation *)
(* gate, ownership checks, error formatting) and the controllers of the    *)
(* user, company and job modules, over the document database.              *)
(***************************************************************************)
EXTENDS Integers, Sequences, FiniteSets, TLC

VARIABLES
    users,          \* User collection
    companies,      \* Company collection
    jobs,           \* Job collection
    applications,   \* Application collection
    nextId,         \* next fresh ObjectId
    JWT_SECRET,     \* process.env.JWT_SECRET
    now,            \* wall clock
    last,           \* the request being answered and its response
    served,         \* requests answered so far
    inflight        \* signUp requests suspended at an await

vars == <<users, companies, jobs, applications, nextId, JWT_SECRET, now, last, served, inflight>>

(***************************************************************************)
(* Bounds of the model.                                                    *)
(***************************************************************************)
MaxTime == 2
MaxNewIds == 2
MaxRequests == 2
MaxInflight == 2
MaxApplying == 1

\* process.env.JWT_EXPIRES_IN, in clock ticks
JWT_EXPIRES_IN == 1

Absent == "<absent>"
Undefined == "<undefined>"
Null == "<null>"

(***************************************************************************)
(* Error model.  AppError carries a message (a string or a list) and a     *)
(* statusCode; any other fault carries no statusCode.                      *)
(***************************************************************************)
NoStatus == 0

Str(text) == [isList |-> FALSE, items |-> <<text>>]
List(items) == [isList |-> TRUE, items |-> items]

AppError(message, statusCode) == [message |-> message, statusCode |-> statusCode]
Fault(text) == [message |-> Str(text), statusCode |-> NoStatus]

\* the error handler without the default: res.status(statusCode)
ErrorHandlerNoDefault(err) == [status |-> err.statusCode, message |-> err.message]

\* app.use((err, req, res, next) => res.status(statusCode || 500).json({message}))
ErrorHandler(err) ==
    [status |-> IF err.statusCode = NoStatus THEN 500 ELSE err.statusCode,
     message |-> err.message]

(***************************************************************************)
(* ObjectIds and their string form.                                        *)
(***************************************************************************)
\* the ids of the records present when the service starts taking requests
SeedIds == {1, 2, 3, 4, 5, 6}
FirstFreeId == Cardinality(SeedIds) + 1
MaxId == FirstFreeId + MaxNewIds - 1
Ids == 1..(MaxId + 1)
IdStr(id) == ToString(id)
IdStrs == {IdStr(i) : i \in Ids}
\* Mongoose casts a well-formed id string of a query to the ObjectId
CastId(s) == CHOOSE i \in Ids : IdStr(i) = s

(***************************************************************************)
(* Credentials.  A token is absent, malformed, or a JWT carrying the       *)
(* secret it was signed with, its expiry and its payload.                  *)
(***************************************************************************)
NoPayload == [id |-> "", username |-> <<>>, email |-> "", role |-> ""]
NoToken == [kind |-> "none", secret |-> "", exp |-> 0, payload |-> NoPayload]
Malformed == [kind |-> "malformed", secret |-> "", exp |-> 0, payload |-> NoPayload]

\* jwt.sign(payload, secret, {expiresIn})
JwtSign(payload, secret, t) ==
    [kind |-> "jwt", secret |-> secret, exp |-> t + JWT_EXPIRES_IN, payload |-> payload]

\* jwt.verify(token, secret, cb): the err passed to cb
JwtVerifyErr(token, secret, t) ==
    \/ token.kind # "jwt"
    \/ token.secret # secret
    \/ t >= token.exp

(***************************************************************************)
(* Values carried by requests.                                             *)
(***************************************************************************)
ValidEmails == {"hr1@x.io", "HR1@x.io", "hr2@x.io", "u3@x.io", "new@x.io"}
ValidMobiles == {"01000000001", "01000000002", "01000000003", "01000000004"}
ValidPasswords == {"Passw0rd1", "Passw0rd2"}
ValidOtps == {"111111", "222222"}
IsoDates == {"1990-01-01", "2999-01-01"}
PastDates == {"1990-01-01"}
Roles == {"User", "Company_HR"}
JobLocations == {"onsite", "remotely", "hybrid"}
WorkingTimes == {"part-time", "full-time"}
SeniorityLevels == {"Junior", "Mid-Level", "Senior", "Team-Lead", "CTO"}
EmployeeRanges == {"1-10 employees", "11-20 employees"}
SkillArrays == {"[js]", "[sql]"}
HexIds == IdStrs


\* the schema option lowercase: true of the User fields email, recoveryEmail, username
Lower(s) ==
    CASE s = "HR1@x.io" -> "hr1@x.io"
      [] s = "Ann" -> "ann"
      [] s = "Lee" -> "lee"
      [] OTHER -> s

(***************************************************************************)
(* Joi schemas: the keys in declaration order, each with its rules.        *)
(***************************************************************************)
Rule(ok, msg) == [ok |-> ok, msg |-> msg]
Key(name, required, requiredMsg, rules) ==
    [name |-> name, required |-> required, requiredMsg |-> requiredMsg, rules |-> rules]

PasswordMsg == "Password must be at least 8 characters long, contain at least one uppercase letter, one lowercase letter, and one number."
MobileMsg == "Mobile number must be a valid Egyptian number (e.g., 00201XXXXXXXX or +201XXXXXXXX or 01XXXXXXXX)."
EmailMsg == "Please provide a valid email address."
EmailOrMobileMsg == "Please provide a valid mobile number or email address."

signUpSchema == <<
    Key("firstName", TRUE, "First name is required.", <<>>),
    Key("lastName", TRUE, "Last name is required.", <<>>),
    Key("email", TRUE, "Email is required.", <<Rule(ValidEmails, EmailMsg)>>),
    Key("password", TRUE, "Password is required.", <<Rule(ValidPasswords, PasswordMsg)>>),
    Key("DOB", TRUE, "Date of Birth is required.",
        <<Rule(IsoDates, "Date of Birth must be in the format YYYY-MM-DD."),
          Rule(PastDates \cup {"01/01/1990"}, "Date of Birth cannot be in the future.")>>),
    Key("mobileNumber", TRUE, "Mobile number is required.", <<Rule(ValidMobiles, MobileMsg)>>),
    Key("recoveryEmail", TRUE, "recoveryEmail is required.", <<Rule(ValidEmails, EmailMsg)>>),
    Key("role", FALSE, "", <<Rule(Roles, "Role must be either User or Company_HR.")>>) >>

signInSchema == <<
    Key("emailOrRecoveryEmailOrMobile", TRUE, "emailOrRecoveryEmailOrMobile is required", <<>>),
    Key("password", TRUE, "password is required", <<>>) >>

updateAccountSchema == <<
    Key("firstName", FALSE, "", <<>>),
    Key("lastName", FALSE, "", <<>>),
    Key("email", FALSE, "", <<Rule(ValidEmails, EmailMsg)>>),
    Key("DOB", FALSE, "",
        <<Rule(IsoDates, "Date of Birth must be in the format YYYY-MM-DD."),
          Rule(PastDates \cup {"01/01/1990"}, "Date of Birth cannot be in the future.")>>),
    Key("mobileNumber", FALSE, "", <<Rule(ValidMobiles, MobileMsg)>>),
    Key("recoveryEmail", FALSE, "", <<Rule(ValidEmails, EmailMsg)>>) >>

updatePasswordSchema == <<
    Key("currentPassword", TRUE, "currentPassword is required.", <<Rule(ValidPasswords, PasswordMsg)>>),
    Key("newPassword", TRUE, "newPassword is required.", <<Rule(ValidPasswords, PasswordMsg)>>) >>

verifyOTPAndSetNewPasswordSchema == <<
    Key("emailOrMobile", TRUE, "emailOrMobile is required",
        <<Rule(ValidEmails \cup ValidMobiles, EmailOrMobileMsg)>>),
    Key("otp", TRUE, "otp is required",
        <<Rule(ValidOtps, "OTP must be exactly 6 digits."),
          Rule(ValidOtps \cup {"123"}, "OTP must contain only digits.")>>),
    Key("newPassword", TRUE, "newPassword is required",
        <<Rule(ValidPasswords, "New password must be at least 8 characters long."),
          Rule(ValidPasswords, "New password must contain at least one uppercase letter, one lowercase letter, and one digit.")>>) >>

getProfileDataSchema == << Key("userId", TRUE, "ID is required.", <<>>) >>

getAccountsByRecoveryEmailSchema ==
    << Key("recoveryEmail", TRUE, "recoveryEmail is required.", <<Rule(ValidEmails, EmailMsg)>>) >>

forgetPasswordSchema ==
    << Key("emailOrMobile", TRUE, "emailOrMobile is required",
           <<Rule(ValidEmails \cup ValidMobiles, EmailOrMobileMsg)>>) >>

addCompanySchema == <<
    Key("companyName", TRUE, "companyName is required", <<>>),
    Key("description", TRUE, "description is required", <<>>),
    Key("industry", TRUE, "industry is required", <<>>),
    Key("address", TRUE, "address is required", <<>>),
    Key("numberOfEmployees", TRUE, "numberOfEmployees is required",
        <<Rule(EmployeeRanges, "Number of employees must be one of the specified values.")>>),
    Key("companyEmail", TRUE, "companyEmail is required",
        <<Rule(ValidEmails, "Company email must be a valid email address.")>>),
    Key("companyHR", TRUE, "companyHR is required",
        <<Rule(HexIds, "Company HR must be a valid MongoDB ObjectId.")>>) >>

updateCompanyDataSchema == <<
    Key("companyName", FALSE, "", <<>>),
    Key("description", FALSE, "", <<>>),
    Key("industry", FALSE, "", <<>>),
    Key("address", FALSE, "", <<>>),
    Key("numberOfEmployees", FALSE, "",
        <<Rule(EmployeeRanges, "Number of employees must be one of the specified values.")>>),
    Key("companyEmail", FALSE, "",
        <<Rule(ValidEmails, "Company email must be a valid email address.")>>),
    Key("companyHR", FALSE, "",
        <<Rule(HexIds, "Company HR must be a valid ObjectId.")>>) >>

searchForCompanyWithNameSchema == << Key("companyName", TRUE, "companyName is required", <<>>) >>

getCompanyDataSchema == << Key("id", TRUE, "ID is required.", <<>>) >>

addJobSchema == <<
    Key("jobTitle", TRUE, "jobTitle is required", <<>>),
    Key("jobLocation", TRUE, "jobLocation is required",
        <<Rule(JobLocations, "Job location must be one of onsite, remotely, hybrid")>>),
    Key("workingTime", TRUE, "workingTime is required",
        <<Rule(WorkingTimes, "Working time must be one of part-time, full-time")>>),
    Key("seniorityLevel", TRUE, "seniorityLevel is required",
        <<Rule(SeniorityLevels, "Seniority level must be one of Junior, Mid-Level, Senior, Team-Lead, CTO")>>),
    Key("jobDescription", TRUE, "jobDescription is required", <<>>),
    Key("technicalSkills", TRUE, "technicalSkills is required",
        <<Rule(SkillArrays, "Technical skills must be an array of strings")>>),
    Key("softSkills", TRUE, "softSkills is required",
        <<Rule(SkillArrays, "Soft skills must be an array of strings")>>) >>

updateJobSchema == <<
    Key("jobTitle", FALSE, "", <<>>),
    Key("jobLocation", FALSE, "",
        <<Rule(JobLocations, "Job location must be one of onsite, remotely, hybrid")>>),
    Key("workingTime", FALSE, "",
        <<Rule(WorkingTimes, "Working time must be one of part-time, full-time")>>),
    Key("seniorityLevel", FALSE, "",
        <<Rule(SeniorityLevels, "Seniority level must be one of Junior, Mid-Level, Senior, Team-Lead, CTO")>>),
    Key("jobDescription", FALSE, "", <<>>),
    Key("technicalSkills", FALSE, "",
        <<Rule(SkillArrays, "Technical skills must be an array of strings")>>),
    Key("softSkills", FALSE, "",
        <<Rule(SkillArrays, "Soft skills must be an array of strings")>>) >>

deleteJobSchema == << Key("id", TRUE, "id is required", <<>>) >>

getJobsForCompanySchema == << Key("companyName", TRUE, "companyName is required", <<>>) >>

filterJobsSchema == <<
    Key("workingTime", FALSE, "", <<Rule(WorkingTimes, "workingTime must be one of part-time, full-time")>>),
    Key("jobLocation", FALSE, "", <<Rule(JobLocations, "jobLocation must be one of onsite, remotely, hybrid")>>),
    Key("seniorityLevel", FALSE, "", <<Rule(SeniorityLevels, "seniorityLevel must be one of Junior, Mid-Level, Senior, Team-Lead, CTO")>>),
    Key("jobTitle", FALSE, "", <<>>),
    Key("technicalSkills", FALSE, "", <<Rule(SkillArrays, "technicalSkills must be an array")>>) >>

applyJobSchema == <<
    Key("jobId", TRUE, "jobId is required", <<>>),
    Key("userTechSkills", TRUE, "userTechSkills is required", <<>>),
    Key("userSoftSkills", TRUE, "userSoftSkills is required", <<>>) >>

(***************************************************************************)
(* Validation gate.                                                        *)
(***************************************************************************)
\* the messages of one key, in rule order
KeyErrors(key, value) ==
    IF value = Absent
    THEN IF key.required THEN <<key.requiredMsg>> ELSE <<>>
    ELSE LET RECURSIVE Failing(_)
             Failing(rules) ==
                 IF rules = <<>> THEN <<>>
                 ELSE (IF value \in Head(rules).ok THEN <<>> ELSE <<Head(rules).msg>>)
                      \o Failing(Tail(rules))
         IN Failing(key.rules)

\* schema.validate(section, {abortEarly: false}).error.details, mapped to the messages
RECURSIVE JoiValidate(_, _)
JoiValidate(schema, section) ==
    IF schema = <<>> THEN <<>>
    ELSE KeyErrors(Head(schema), section[Head(schema).name])
         \o JoiValidate(Tail(schema), section)

\* req[target]: a property of the request object, undefined for any other key
ReqHas(target) == target \in {"body", "query", "params"}

\* middleware results
Forward(req) == [kind |-> "next", req |-> req, err |-> Fault("")]
Throw(req, err) == [kind |-> "throw", req |-> req, err |-> err]

validate(schema, target, req) ==
    LET errors == IF ReqHas(target) THEN JoiValidate(schema, req[target]) ELSE <<>>
    IN IF errors # <<>> THEN Throw(req, AppError(List(errors), 400)) ELSE Forward(req)

(***************************************************************************)
(* Identity verification.                                                  *)
(***************************************************************************)
AnyRole == Undefined
\* jwt.verify(token, 'secret', ...)
VerifySecret == "secret"

authRoleFirst(role, req, t) ==
    IF req.token.kind = "none" THEN Throw(req, AppError(Str("Please SignIn"), 401))
    ELSE IF role # AnyRole /\ req.token.payload.role # role
         THEN Throw(req, AppError(Str("Not enough privileges"), 403))
    ELSE IF JwtVerifyErr(req.token, VerifySecret, t) THEN Throw(req, AppError(Str("Invalid token"), 498))
    ELSE Forward([req EXCEPT !.user = req.token.payload])

auth(role, req, t) ==
    IF req.token.kind = "none" THEN Throw(req, AppError(Str("Please SignIn"), 401))
    ELSE IF JwtVerifyErr(req.token, VerifySecret, t) THEN Throw(req, AppError(Str("Invalid token"), 498))
    ELSE IF role # AnyRole /\ req.token.payload.role # role
         THEN Throw(req, AppError(Str("Not enough privileges"), 403))
    ELSE Forward([req EXCEPT !.user = req.token.payload])

(***************************************************************************)
(* The database: four collections and the ObjectId generator.  A unique    *)
(* index rejects a write that would duplicate its key.                     *)
(***************************************************************************)
Db == [users |-> users, companies |-> companies, jobs |-> jobs,
       applications |-> applications, nextId |-> nextId]

\* the first document of a result set, in insertion order
First(docs) == CHOOSE d \in docs : \A e \in docs : d.id <= e.id

\* bcrypt.hashSync and bcrypt.compareSync
Hash(password) == [bcrypt |-> password]
CompareSync(password, hashed) == hashed = Hash(password)

\* controller results: a response sent, or a fault thrown into catchAsyncError
NoUser == NoPayload
Res(status, text) ==
    [status |-> status, message |-> Str(text), token |-> NoToken, data |-> {}]
Respond(db, res) == [db |-> db, thrown |-> FALSE, res |-> res, err |-> Fault("")]
Raise(db, err) == [db |-> db, thrown |-> TRUE, res |-> Res(0, ""), err |-> err]

(***************************************************************************)
(* User collection.                                                        *)
(***************************************************************************)
\* User.findOne({$or: [{email}, {mobileNumber}]})
UsersByEmailOrMobile(db, email, mobileNumber) ==
    {u \in db.users : u.email = Lower(email) \/ u.mobileNumber = mobileNumber}

\* the unique indexes on email and mobileNumber
UserIndexConflict(db, doc) ==
    \E u \in db.users : u.id # doc.id /\ (u.email = doc.email \/ u.mobileNumber = doc.mobileNumber)

UserCreateNoIndex(db, doc) ==
    [ok |-> TRUE, db |-> [db EXCEPT !.users = @ \cup {[doc EXCEPT !.id = db.nextId]},
                                    !.nextId = @ + 1]]

\* User.create(doc)
UserCreate(db, doc) ==
    LET d == [doc EXCEPT !.id = db.nextId]
    IN IF UserIndexConflict(db, d)
       THEN [ok |-> FALSE, db |-> db]
       ELSE [ok |-> TRUE, db |-> [db EXCEPT !.users = @ \cup {d}, !.nextId = @ + 1]]

\* the document signUp builds from the body
NewUser(body) ==
    [id |-> 0,
     firstName |-> body.firstName,
     lastName |-> body.lastName,
     username |-> <<Lower(body.firstName), Lower(body.lastName)>>,
     email |-> Lower(body.email),
     password |-> Hash(body.password),
     recoveryEmail |-> Lower(body.recoveryEmail),
     mobileNumber |-> body.mobileNumber,
     role |-> IF body.role = Absent THEN "User" ELSE body.role,
     status |-> "offline",
     otp |-> Null,
     otpExpire |-> 0]

DuplicateKey == Fault("E11000 duplicate key error")

\* signUp after its pre-check: the write and the response
signUpCreate(db, req) ==
    LET c == UserCreate(db, NewUser(req.body))
    IN IF c.ok THEN Respond(c.db, Res(201, "signup successfully"))
       ELSE Raise(db, DuplicateKey)

\* signUp up to its first await: the pre-check
signUpFindOne(db, req) == UsersByEmailOrMobile(db, req.body.email, req.body.mobileNumber)

signUp(db, req) ==
    IF signUpFindOne(db, req) # {}
    THEN Raise(db, AppError(Str("Email already exists"), 400))
    ELSE signUpCreate(db, req)

\* the filter of SignIn: email, mobileNumber or recoveryEmail
UsersByLogin(db, key) ==
    {u \in db.users : u.email = Lower(key) \/ u.mobileNumber = key \/ u.recoveryEmail = Lower(key)}

Identity(user) ==
    [id |-> IdStr(user.id), username |-> user.username, email |-> user.email, role |-> user.role]

\* findByIdAndUpdate / save: the document with this _id is replaced by doc
SetUser(db, id, doc) ==
    [db EXCEPT !.users = {IF u.id = id THEN doc ELSE u : u \in @}]

SignIn(db, req, secret, t) ==
    LET found == UsersByLogin(db, req.body.emailOrRecoveryEmailOrMobile)
    IN IF found = {} \/ ~CompareSync(req.body.password, First(found).password)
       THEN Raise(db, AppError(Str("Incorrect password or email"), 400))
       ELSE LET user == First(found)
                Online == [user EXCEPT !.status = "online"]
            IN Respond(SetUser(db, user.id, Online),
                       [Res(200, "SignIn successfully") EXCEPT
                           !.token = JwtSign(Identity(user), secret, t)])

\* User.findById(req.user.id)
UsersById(db, idStr) == {u \in db.users : IdStr(u.id) = idStr}

\* the fields of an update that are present in the body
Upd(old, new) == IF new = Absent THEN old ELSE new

updateAccount(db, req) ==
    LET me == UsersById(db, req.user.id)
        b == req.body
        existing == {u \in UsersByEmailOrMobile(db, b.email, b.mobileNumber) :
                        IdStr(u.id) # req.user.id}
    IN IF me = {} THEN Raise(db, AppError(Str("Please SignUp"), 401))
       ELSE IF First(me).status = "offline" THEN Raise(db, AppError(Str("LogIn first"), 401))
       ELSE IF existing # {} /\ First(existing).email = b.email
            THEN Raise(db, AppError(Str("Email already in use"), 409))
       ELSE IF existing # {} /\ First(existing).mobileNumber = b.mobileNumber
            THEN Raise(db, AppError(Str("Mobile number already in use"), 409))
       ELSE LET x == First(me)
                y == [x EXCEPT !.email = Lower(Upd(@, b.email)),
                               !.mobileNumber = Upd(@, b.mobileNumber),
                               !.recoveryEmail = Lower(Upd(@, b.recoveryEmail)),
                               !.lastName = Upd(@, b.lastName),
                               !.firstName = Upd(@, b.firstName)]
            IN IF UserIndexConflict(db, y) THEN Raise(db, DuplicateKey)
               ELSE Respond(SetUser(db, x.id, y), Res(200, "Account updated successfully"))

deleteAccount(db, req) ==
    LET me == UsersById(db, req.user.id)
    IN IF me = {} THEN Raise(db, AppError(Str("Please SignUp"), 401))
       ELSE IF First(me).status = "offline" THEN Raise(db, AppError(Str("LogIn first"), 401))
       ELSE Respond([db EXCEPT !.users = @ \ me], Res(200, "Account deleted successfully"))

logout(db, req) ==
    LET me == UsersById(db, req.user.id)
        Offline == [First(me) EXCEPT !.status = "offline"]
    IN IF me = {} THEN Raise(db, AppError(Str("Please SignUp"), 401))
       ELSE IF First(me).status = "offline" THEN Respond(db, Res(200, "Logout successfully"))
       ELSE Respond(SetUser(db, First(me).id, Offline), Res(200, "Logout successfully"))

\* getUserData without the test of the status
getUserDataOffline(db, req) ==
    LET me == UsersById(db, req.user.id)
    IN IF me = {} THEN Raise(db, AppError(Str("Please SignUp"), 401))
       ELSE Respond(db, [Res(200, "Success") EXCEPT !.data = me])

getUserData(db, req) ==
    LET me == UsersById(db, req.user.id)
    IN IF me = {} THEN Raise(db, AppError(Str("Please SignUp"), 401))
       ELSE IF First(me).status = "offline" THEN Raise(db, AppError(Str("LogIn first"), 401))
       ELSE Respond(db, [Res(200, "Success") EXCEPT !.data = me])

getProfileData(db, req) ==
    LET found == UsersById(db, req.query.userId)
    IN IF found = {} THEN Raise(db, AppError(Str("User not found"), 404))
       ELSE Respond(db, [Res(200, "") EXCEPT !.data = found])

updatePassword(db, req) ==
    LET me == UsersById(db, req.user.id)
        SetPw == [First(me) EXCEPT !.password = Hash(req.body.newPassword)]
    IN IF me = {} THEN Raise(db, AppError(Str("Please SignUp"), 401))
       ELSE IF First(me).status = "offline" THEN Raise(db, AppError(Str("LogIn first"), 401))
       ELSE IF ~CompareSync(req.body.currentPassword, First(me).password)
            THEN Raise(db, AppError(Str("Current password is incorrect"), 400))
       ELSE IF CompareSync(req.body.newPassword, First(me).password)
            THEN Raise(db, AppError(Str("The current password matches the new password"), 400))
       ELSE Respond(SetUser(db, First(me).id, SetPw), Res(200, "Password updated successfully"))

getAccountsByRecoveryEmail(db, req) ==
    LET found == {u \in db.users : u.recoveryEmail = Lower(req.query.recoveryEmail)}
    IN IF found = {}
       THEN Raise(db, AppError(Str("No accounts found with the provided recovery email"), 404))
       ELSE Respond(db, [Res(200, "") EXCEPT !.data = found])

\* 10 * 60 * 1000 ms, in clock ticks
OtpValidity == 1

\* req.ext.otp: the code Math.random draws; req.ext.mailOk: whether sendMail resolves
forgetPassword(db, req, t) ==
    LET found == UsersByEmailOrMobile(db, req.body.emailOrMobile, req.body.emailOrMobile)
        SetOtp == [First(found) EXCEPT !.otp = req.ext.otp, !.otpExpire = t + OtpValidity]
    IN IF found = {} THEN Raise(db, AppError(Str("Incorrect email or mobile number"), 400))
       ELSE IF ~req.ext.mailOk
            THEN Raise(SetUser(db, First(found).id, SetOtp), Fault("sendMail failed"))
       ELSE Respond(SetUser(db, First(found).id, SetOtp),
                    Res(201, "OTP has been sent successfully"))

\* the expiry test with the instant of expiry itself counted as expired
verifyOTPExpiryInclusive(db, req, t) ==
    LET found == UsersByEmailOrMobile(db, req.body.emailOrMobile, req.body.emailOrMobile)
        Reset == [First(found) EXCEPT !.password = Hash(req.body.newPassword),
                                      !.otp = Null, !.otpExpire = 0]
    IN IF found = {} \/ First(found).otp # req.body.otp
       THEN Raise(db, AppError(Str("Invalid email or OTP"), 400))
       ELSE IF t >= First(found).otpExpire THEN Raise(db, AppError(Str("OTP expired"), 400))
       ELSE Respond(SetUser(db, First(found).id, Reset), Res(200, "Password updated successfully"))

verifyOTPAndSetNewPassword(db, req, t) ==
    LET found == UsersByEmailOrMobile(db, req.body.emailOrMobile, req.body.emailOrMobile)
        Reset == [First(found) EXCEPT !.password = Hash(req.body.newPassword),
                                      !.otp = Null, !.otpExpire = 0]
    IN IF found = {} \/ First(found).otp # req.body.otp
       THEN Raise(db, AppError(Str("Invalid email or OTP"), 400))
       ELSE IF t > First(found).otpExpire THEN Raise(db, AppError(Str("OTP expired"), 400))
       ELSE Respond(SetUser(db, First(found).id, Reset), Res(200, "Password updated successfully"))

(***************************************************************************)
(* Company collection.                                                     *)
(***************************************************************************)
\* Company.findOne({$or: [{companyName}, {companyEmail}]})
CompaniesByNameOrEmail(db, companyName, companyEmail) ==
    {c \in db.companies : c.companyName = companyName \/ c.companyEmail = companyEmail}

\* the unique indexes on companyName and companyEmail
CompanyIndexConflict(db, doc) ==
    \E c \in db.companies :
        c.id # doc.id /\ (c.companyName = doc.companyName \/ c.companyEmail = doc.companyEmail)

NewCompany(db, body) ==
    [id |-> db.nextId,
     companyName |-> body.companyName,
     description |-> body.description,
     industry |-> body.industry,
     address |-> body.address,
     numberOfEmployees |-> body.numberOfEmployees,
     companyEmail |-> body.companyEmail,
     companyHR |-> CastId(body.companyHR)]

addCompany(db, req) ==
    IF CompaniesByNameOrEmail(db, req.body.companyName, req.body.companyEmail) # {}
    THEN Raise(db, AppError(Str("Company already exists"), 400))
    ELSE IF CompanyIndexConflict(db, NewCompany(db, req.body)) THEN Raise(db, DuplicateKey)
    ELSE Respond([db EXCEPT !.companies = @ \cup {NewCompany(db, req.body)}, !.nextId = @ + 1],
                 Res(201, "Company added successfully"))

\* the lookup keyed on nothing: any company
CompaniesOfAnyone(db, idStr) == db.companies

\* Company.findOne({companyHR: req.user.id})
CompaniesByHR(db, idStr) == {c \in db.companies : IdStr(c.companyHR) = idStr}

updateCompanyData(db, req) ==
    LET mine == CompaniesByHR(db, req.user.id)
        b == req.body
    IN IF mine = {} THEN Raise(db, AppError(Str("Only the company owner can update the data"), 403))
       ELSE LET c == First(mine)
                existing == {e \in CompaniesByNameOrEmail(db, b.companyName, b.companyEmail) :
                                e.id # c.id}
                y == [c EXCEPT !.companyName = Upd(@, b.companyName),
                               !.description = Upd(@, b.description),
                               !.industry = Upd(@, b.industry),
                               !.address = Upd(@, b.address),
                               !.numberOfEmployees = Upd(@, b.numberOfEmployees),
                               !.companyEmail = Upd(@, b.companyEmail),
                               !.companyHR = IF b.companyHR = Absent THEN @ ELSE CastId(b.companyHR)]
            IN IF existing # {} /\ First(existing).companyEmail = b.companyEmail
               THEN Raise(db, AppError(Str("Email already in use"), 409))
               ELSE IF existing # {} /\ First(existing).companyName = b.companyName
               THEN Raise(db, AppError(Str("Company name already in use"), 409))
               ELSE IF CompanyIndexConflict(db, y) THEN Raise(db, DuplicateKey)
               ELSE Respond([db EXCEPT !.companies = (@ \ {c}) \cup {y}],
                            Res(200, "Company data updated successfully"))

deleteCompanyData(db, req) ==
    LET mine == CompaniesByHR(db, req.user.id)
    IN IF mine = {} THEN Raise(db, AppError(Str("Only the company owner can delete the data"), 403))
       ELSE Respond([db EXCEPT !.companies = @ \ {First(mine)}],
                    Res(200, "Company data deleted successfully"))

searchForCompanyWithName(db, req) ==
    LET found == {c \in db.companies : c.companyName = req.query.companyName}
    IN IF found = {} THEN Raise(db, AppError(Str("Company not found"), 404))
       ELSE Respond(db, [Res(200, "") EXCEPT !.data = {First(found)}])

getCompanyData(db, req) ==
    LET found == {c \in db.companies : IdStr(c.id) = req.params.id}
    IN IF found = {} THEN Raise(db, AppError(Str("Company not found"), 404))
       ELSE Respond(db, [Res(200, "") EXCEPT
                            !.data = {j \in db.jobs : j.addedBy = First(found).companyHR}])

(***************************************************************************)
(* Job collection.                                                         *)
(***************************************************************************)
\* Job.findById(id)
JobsById(db, idStr) == {j \in db.jobs : IdStr(j.id) = idStr}

addJob(db, req) ==
    LET b == req.body
        job == [id |-> db.nextId,
                jobTitle |-> b.jobTitle,
                jobLocation |-> b.jobLocation,
                workingTime |-> b.workingTime,
                seniorityLevel |-> b.seniorityLevel,
                jobDescription |-> b.jobDescription,
                technicalSkills |-> b.technicalSkills,
                softSkills |-> b.softSkills,
                addedBy |-> CastId(req.user.id)]
    IN Respond([db EXCEPT !.jobs = @ \cup {job}, !.nextId = @ + 1],
               Res(201, "Job added successfully"))

\* whether the caller is the owner the job names
IsOwnerAlways(job, req) == TRUE
IsOwner(job, req) == IdStr(job.addedBy) = req.user.id

updateJob(db, req) ==
    LET found == JobsById(db, req.params.id)
        b == req.body
    IN IF found = {} THEN Raise(db, AppError(Str("Job not found"), 404))
       ELSE IF ~IsOwner(First(found), req)
            THEN Raise(db, AppError(Str("Only the company owner can update the data"), 403))
       ELSE LET j == First(found)
                y == [j EXCEPT !.jobTitle = Upd(@, b.jobTitle),
                               !.jobLocation = Upd(@, b.jobLocation),
                               !.workingTime = Upd(@, b.workingTime),
                               !.seniorityLevel = Upd(@, b.seniorityLevel),
                               !.jobDescription = Upd(@, b.jobDescription),
                               !.technicalSkills = Upd(@, b.technicalSkills),
                               !.softSkills = Upd(@, b.softSkills),
                               !.addedBy = CastId(req.user.id)]
            IN Respond([db EXCEPT !.jobs = (@ \ {j}) \cup {y}],
                       [Res(200, "Job data updated successfully") EXCEPT !.data = {y}])

deleteJobOwnershipFirst(db, req) ==
    LET found == JobsById(db, req.params.id)
    IN IF \A j \in found : ~IsOwner(j, req)
       THEN Raise(db, AppError(Str("Only the company owner can delete the data"), 403))
       ELSE Respond([db EXCEPT !.jobs = @ \ found],
                    [Res(200, "Job data deleted successfully") EXCEPT !.data = found])

deleteJob(db, req) ==
    LET found == JobsById(db, req.params.id)
    IN IF found = {} THEN Raise(db, AppError(Str("Job not found"), 404))
       ELSE IF ~IsOwner(First(found), req)
            THEN Raise(db, AppError(Str("Only the company owner can delete the data"), 403))
       ELSE Respond([db EXCEPT !.jobs = @ \ found],
                    [Res(200, "Job data deleted successfully") EXCEPT !.data = found])

JobsWithCompaniesInfo(db, req) ==
    IF db.companies = {} THEN Raise(db, AppError(Str("No companies found"), 404))
    ELSE Respond(db, [Res(200, "") EXCEPT
                         !.data = {j \in db.jobs : \E c \in db.companies : j.addedBy = c.companyHR}])

getAllJobsForSpecificCompany(db, req) ==
    LET found == {c \in db.companies : c.companyName = req.query.companyName}
    IN IF found = {} THEN Raise(db, AppError(Str("Company not found"), 404))
       ELSE Respond(db, [Res(200, "") EXCEPT
                            !.data = {j \in db.jobs : j.addedBy = First(found).companyHR}])

\* a filter of the query applies when it is present
Matches(filter, value) == filter = Absent \/ filter = value

\* populate('addedBy', '-_id -password -firstName -lastName -recoveryEmail -DOB -status'):
\* the user the job refers to, without these fields; none when the user is gone
Populate(db, job) ==
    [job EXCEPT !.addedBy =
        {[username |-> u.username, email |-> u.email, mobileNumber |-> u.mobileNumber,
          role |-> u.role, otp |-> u.otp, otpExpire |-> u.otpExpire] :
            u \in {x \in db.users : x.id = job.addedBy}}]

\* getFilteredJobs that takes the jobs it returns off the collection
getFilteredJobsConsuming(db, req) ==
    IF db.jobs = {}
    THEN Respond(db, Res(404, "There are no jobs with these specifications"))
    ELSE Respond([db EXCEPT !.jobs = {}],
                 [Res(200, "") EXCEPT !.data = {Populate(db, j) : j \in db.jobs}])

getFilteredJobs(db, req) ==
    LET q == req.query
        found == {j \in db.jobs :
                     /\ Matches(q.workingTime, j.workingTime)
                     /\ Matches(q.jobLocation, j.jobLocation)
                     /\ Matches(q.seniorityLevel, j.seniorityLevel)
                     /\ Matches(q.jobTitle, j.jobTitle)}
    IN IF q.technicalSkills # Absent THEN Raise(db, Fault("technicalSkills.split is not a function"))
       ELSE IF found = {}
            THEN Respond(db, Res(404, "There are no jobs with these specifications"))
       ELSE Respond(db, [Res(200, "") EXCEPT !.data = {Populate(db, j) : j \in found}])

(***************************************************************************)
(* Applications.                                                           *)
(***************************************************************************)
getAllApplicationsForSpecificJob(db, req) ==
    LET found == JobsById(db, req.params.id)
    IN IF found = {} THEN Raise(db, AppError(Str("Job not found"), 404))
       ELSE IF ~IsOwner(First(found), req)
            THEN Raise(db, AppError(Str("Only the owner can view the applications for their jobs"), 498))
       ELSE Respond(db, [Res(200, "") EXCEPT
                            !.data = {a \in db.applications : a.jobId = First(found).id}])

\* JSON.parse of a skills field: the array the text denotes
JsonParse(text) ==
    CASE text = "[js]" -> <<"js">>
      [] text = "[sql]" -> <<"sql">>

\* applyToJob, stage by stage.  A run is the workflow of one request: the
\* stage it is at, the job it looked up, the url the asset store returned,
\* the id of the Application it saved (0: none yet), the stages it went
\* through, and how it ended.  req.file: the file multer stored; req.ext: what the asset
\* store, the database write and fs.unlinkSync do.  local: the copy multer left on disk
\* ("none": no file came, "stored": it is there, "removed": unlinked).
ApplyStages == <<"Parse", "Lookup", "Asset", "Upload", "Persist", "Cleanup">>

applyStart(req) ==
    [req |-> req, pc |-> "Parse", job |-> 0, url |-> "", created |-> 0, stages |-> <<>>,
     thrown |-> FALSE, res |-> Res(0, ""), err |-> Fault(""),
     local |-> IF req.file = Absent THEN "none" ELSE "stored"]

\* if (!req.file), as always true
HasFileAlways(req) == TRUE
\* if (!req.file)
HasFile(req) == req.file # Absent

\* the upload promise, as always resolved
UploadResolvedAlways(req) == TRUE
\* cloudinary.uploader.upload calls back with an error (reject) or a result (resolve)
UploadResolved(req) == req.ext.uploadOk

\* fs.unlinkSync, as never throwing
UnlinkThrowsNever(req) == FALSE
\* fs.unlinkSync(req.file.path) throws when the file cannot be removed
UnlinkThrows(req) == ~req.ext.unlinkOk

\* await newApplication.save(): the write is acknowledged, or the promise rejects
SaveResolved(req) == req.ext.saveOk

\* fs.unlinkSync, as leaving the file where it is
UnlinkSyncSkipped(run) == run
\* fs.unlinkSync(req.file.path) returned: the local copy is gone
UnlinkSync(run) == [run EXCEPT !.local = "removed"]

\* the Application saved with the local path of the file as its resume
NewApplicationLocalPath(db, run) ==
    [id |-> db.nextId,
     jobId |-> run.job,
     userId |-> CastId(run.req.user.id),
     userTechSkills |-> JsonParse(run.req.body.userTechSkills),
     userSoftSkills |-> JsonParse(run.req.body.userSoftSkills),
     userResume |-> run.req.file]

NewApplication(db, run) ==
    [id |-> db.nextId,
     jobId |-> run.job,
     userId |-> CastId(run.req.user.id),
     userTechSkills |-> JsonParse(run.req.body.userTechSkills),
     userSoftSkills |-> JsonParse(run.req.body.userSoftSkills),
     userResume |-> run.url]

applyStage(db, run) ==
    LET Goto(r, pc) == [r EXCEPT !.pc = pc]
        Finish(r, res) == [r EXCEPT !.pc = "done", !.res = res]
        Fail(r, err) == [r EXCEPT !.pc = "done", !.thrown = TRUE, !.err = err]
        req == run.req
        b == req.body
        at == [run EXCEPT !.stages = Append(@, run.pc)]
        found == JobsById(db, b.jobId)
    IN CASE run.pc = "Parse" ->
              [db |-> db,
               run |-> IF b.userTechSkills \notin SkillArrays \/ b.userSoftSkills \notin SkillArrays
                       THEN Fail(at, Fault("Unexpected token in JSON"))
                       ELSE Goto(at, "Lookup")]
         [] run.pc = "Lookup" ->
              [db |-> db,
               run |-> IF found = {} THEN Fail(at, AppError(Str("Job not found"), 404))
                       ELSE [Goto(at, "Asset") EXCEPT !.job = First(found).id]]
         [] run.pc = "Asset" ->
              [db |-> db,
               run |-> IF ~HasFile(req) THEN Finish(at, Res(400, "Resume file is required"))
                       ELSE Goto(at, "Upload")]
         [] run.pc = "Upload" ->
              [db |-> db,
               run |-> IF ~UploadResolved(req) THEN Fail(at, Fault("upload failed"))
                       ELSE [Goto(at, "Persist") EXCEPT !.url = req.ext.url]]
         [] run.pc = "Persist" ->
              IF ~SaveResolved(req)
              THEN [db |-> db, run |-> Fail(at, Fault("save failed"))]
              ELSE [db |-> [db EXCEPT !.applications = @ \cup {NewApplication(db, run)},
                                      !.nextId = @ + 1],
                    run |-> [Goto(at, "Cleanup") EXCEPT !.created = db.nextId]]
         [] run.pc = "Cleanup" ->
              [db |-> db,
               run |-> IF UnlinkThrows(req)
                       THEN Fail(at, Fault("ENOENT: no such file or directory, unlink"))
                       ELSE Finish(UnlinkSync(at), Res(201, "Application submitted successfully"))]

RECURSIVE applyRun(_, _)
applyRun(db, run) ==
    IF run.pc = "done" THEN [db |-> db, run |-> run]
    ELSE LET s == applyStage(db, run) IN applyRun(s.db, s.run)

applyToJob(db, req) ==
    LET end == applyRun(db, applyStart(req))
    IN IF end.run.thrown THEN Raise(end.db, end.run.err) ELSE Respond(end.db, end.run.res)

\* app.use('*', ...): no router took the request
notFound(db, req) == Raise(db, AppError(Str(req.originalUrl \o " not found"), 404))

(***************************************************************************)
(* Routes: the middleware each router puts before the controller, in the   *)
(* order of registration.                                                  *)
(***************************************************************************)
Auth(role) == [mw |-> "auth", role |-> role, schema |-> <<>>, target |-> ""]
Validate(schema, target) == [mw |-> "validate", role |-> "", schema |-> schema, target |-> target]
Upload == [mw |-> "upload", role |-> "", schema |-> <<>>, target |-> ""]

\* validate(JV.updateJobSchema, ['params','body']): the array, as a property key
ParamsAndBody == "params,body"

UserRoutes == {"signup", "SignIn", "logout", "updateAccount", "deleteAccount", "getUserData",
               "getProfileData", "getAccountsByRecoveryEmail", "updatePassword",
               "forgetPassword", "verifyOTPAndSetNewPassword"}
CompanyRoutes == {"addCompany", "updateCompanyData", "deleteCompanyData",
                  "searchForCompanyWithName", "getCompanyData",
                  "getAllApplicationsForSpecificJob"}
JobRoutes == {"addJob", "updateJob", "deleteJob", "JobsWithCompaniesInfo",
              "getAllJobsForSpecificCompany", "getFilteredJobs", "applyToJob"}
Routes == UserRoutes \cup CompanyRoutes \cup JobRoutes

\* router.<method>(path, ...middleware, controller): the middleware of each route
signupChain == <<Validate(signUpSchema, "body")>>
SignInChain == <<Validate(signInSchema, "body")>>
logoutChain == <<Auth(AnyRole)>>
updateAccountChain == <<Auth(AnyRole), Validate(updateAccountSchema, "body")>>
deleteAccountChain == <<Auth(AnyRole)>>
getUserDataChain == <<Auth(AnyRole)>>
getProfileDataChain == <<Validate(getProfileDataSchema, "query")>>
getAccountsByRecoveryEmailChain == <<Validate(getAccountsByRecoveryEmailSchema, "query")>>
updatePasswordChain == <<Auth(AnyRole), Validate(updatePasswordSchema, "body")>>
forgetPasswordChain == <<Validate(forgetPasswordSchema, "body")>>
verifyOTPAndSetNewPasswordChain == <<Validate(verifyOTPAndSetNewPasswordSchema, "body")>>
addCompanyChain == <<Auth("Company_HR"), Validate(addCompanySchema, "body")>>
updateCompanyDataChain == <<Auth("Company_HR"), Validate(updateCompanyDataSchema, "body")>>
deleteCompanyDataChain == <<Auth("Company_HR")>>
searchForCompanyWithNameChain == <<Auth(AnyRole), Validate(searchForCompanyWithNameSchema, "query")>>
getCompanyDataChain == <<Auth("Company_HR"), Validate(getCompanyDataSchema, "params")>>
getAllApplicationsForSpecificJobChain == <<Auth("Company_HR")>>
addJobChainValidateFirst == <<Validate(addJobSchema, "body"), Auth("Company_HR")>>
addJobChain == <<Auth("Company_HR"), Validate(addJobSchema, "body")>>
updateJobChain == <<Auth("Company_HR"), Validate(updateJobSchema, ParamsAndBody)>>
deleteJobChain == <<Auth("Company_HR"), Validate(deleteJobSchema, "params")>>
JobsWithCompaniesInfoChain == <<Auth(AnyRole)>>
getAllJobsForSpecificCompanyChain == <<Auth(AnyRole), Validate(getJobsForCompanySchema, "query")>>
getFilteredJobsChain == <<Auth(AnyRole), Validate(filterJobsSchema, "query")>>
applyToJobChain == <<Auth("User"), Upload, Validate(applyJobSchema, "body")>>

Chain(route) ==
    CASE route = "signup" -> signupChain
      [] route = "SignIn" -> SignInChain
      [] route = "logout" -> logoutChain
      [] route = "updateAccount" -> updateAccountChain
      [] route = "deleteAccount" -> deleteAccountChain
      [] route = "getUserData" -> getUserDataChain
      [] route = "getProfileData" -> getProfileDataChain
      [] route = "getAccountsByRecoveryEmail" -> getAccountsByRecoveryEmailChain
      [] route = "updatePassword" -> updatePasswordChain
      [] route = "forgetPassword" -> forgetPasswordChain
      [] route = "verifyOTPAndSetNewPassword" -> verifyOTPAndSetNewPasswordChain
      [] route = "addCompany" -> addCompanyChain
      [] route = "updateCompanyData" -> updateCompanyDataChain
      [] route = "deleteCompanyData" -> deleteCompanyDataChain
      [] route = "searchForCompanyWithName" -> searchForCompanyWithNameChain
      [] route = "getCompanyData" -> getCompanyDataChain
      [] route = "getAllApplicationsForSpecificJob" -> getAllApplicationsForSpecificJobChain
      [] route = "addJob" -> addJobChain
      [] route = "updateJob" -> updateJobChain
      [] route = "deleteJob" -> deleteJobChain
      [] route = "JobsWithCompaniesInfo" -> JobsWithCompaniesInfoChain
      [] route = "getAllJobsForSpecificCompany" -> getAllJobsForSpecificCompanyChain
      [] route = "getFilteredJobs" -> getFilteredJobsChain
      [] route = "applyToJob" -> applyToJobChain

\* one middleware applied to the request
ApplyMw(m, req, t) ==
    CASE m.mw = "auth" -> auth(m.role, req, t)
      [] m.mw = "validate" -> validate(m.schema, m.target, req)
      [] m.mw = "upload" -> Forward(req)

\* the chain up to the controller: next() runs the following middleware, a throw ends it
RECURSIVE RunChain(_, _, _)
RunChain(chain, req, t) ==
    IF chain = <<>> THEN Forward(req)
    ELSE LET r == ApplyMw(Head(chain), req, t)
         IN IF r.kind = "next" THEN RunChain(Tail(chain), r.req, t) ELSE r

\* upload.single('userResume') runs when auth('User') called next(): multer writes the
\* attached file to disk before validate sees the body
Buffered(req, t) ==
    IF req.file # Absent /\ RunChain(<<applyToJobChain[1]>>, req, t).kind = "next"
    THEN "stored" ELSE "none"

\* the req a controller receives: the one the last middleware passed to next()
Passed(chain, req, t) == RunChain(chain, req, t).req

\* catchAsyncError(fn): a fault thrown by fn goes to the error handler
catchAsyncError(c) == IF c.thrown THEN ErrorHandler(c.err) ELSE c.res

\* a rejection by the middleware that also writes: the applications are dropped
ServeRejectWrites(chain, c, req, db, t) ==
    LET g == RunChain(chain, req, t)
    IN IF g.kind = "throw"
       THEN [db |-> [db EXCEPT !.applications = {}],
             res |-> ErrorHandler(g.err) @@ [token |-> NoToken, data |-> {}],
             ran |-> FALSE, got |-> g.req, failed |-> TRUE, err |-> g.err]
       ELSE LET r == catchAsyncError(c)
            IN [db |-> c.db,
                res |-> IF c.thrown THEN r @@ [token |-> NoToken, data |-> {}] ELSE r,
                ran |-> TRUE, got |-> g.req, failed |-> c.thrown, err |-> c.err]

\* a request through a route's middleware into its controller: the response,
\* the database after it, what ran
\* c is the controller's outcome on the request the chain hands it (Passed);
\* it is looked at only when the chain did not throw
Serve(chain, c, req, db, t) ==
    LET g == RunChain(chain, req, t)
    IN IF g.kind = "throw"
       THEN [db |-> db, res |-> ErrorHandler(g.err) @@ [token |-> NoToken, data |-> {}],
             ran |-> FALSE, got |-> g.req, failed |-> TRUE, err |-> g.err]
       ELSE LET r == catchAsyncError(c)
            IN [db |-> c.db,
                res |-> IF c.thrown THEN r @@ [token |-> NoToken, data |-> {}] ELSE r,
                ran |-> TRUE, got |-> g.req, failed |-> c.thrown, err |-> c.err]

(***************************************************************************)
(* The records present when the service starts taking requests: two HR     *)
(* accounts and one applicant, signed up and not signed in; a company and  *)
(* a job of the first HR account; an application of the applicant.         *)
(***************************************************************************)
Account(id, email, mobileNumber, role) ==
    [id |-> id, firstName |-> "Ann", lastName |-> "Lee", username |-> <<"ann", "lee">>,
     email |-> email, password |-> Hash("Passw0rd1"), recoveryEmail |-> "u3@x.io",
     mobileNumber |-> mobileNumber, role |-> role, status |-> "offline",
     otp |-> Null, otpExpire |-> 0]
HR1 == Account(1, "hr1@x.io", "01000000001", "Company_HR")
HR2 == Account(2, "hr2@x.io", "01000000002", "Company_HR")
U3 == Account(3, "u3@x.io", "01000000003", "User")
SeedUsers == {HR1, HR2, U3}
SeedCompany ==
    [id |-> 4, companyName |-> "Acme", description |-> "text", industry |-> "text",
     address |-> "text", numberOfEmployees |-> "1-10 employees",
     companyEmail |-> "hr1@x.io", companyHR |-> 1]
SeedJob ==
    [id |-> 5, jobTitle |-> "text", jobLocation |-> "onsite", workingTime |-> "full-time",
     seniorityLevel |-> "Junior", jobDescription |-> "text", technicalSkills |-> "[js]",
     softSkills |-> "[sql]", addedBy |-> 1]
SeedApplication ==
    [id |-> 6, jobId |-> 5, userId |-> 3, userTechSkills |-> <<"js">>,
     userSoftSkills |-> <<"sql">>, userResume |-> "https://assets/cv"]

Ext0 == [otp |-> Null, mailOk |-> TRUE, uploadOk |-> TRUE, saveOk |-> TRUE, unlinkOk |-> TRUE,
         url |-> ""]
NoRequest == [originalUrl |-> "", token |-> NoToken, params |-> <<>>, query |-> <<>>,
              body |-> <<>>, file |-> Absent, user |-> NoUser, ext |-> Ext0]
Idle == [route |-> "", req |-> NoRequest, got |-> NoRequest, ran |-> FALSE, status |-> 0,
         message |-> Str(""), token |-> NoToken, data |-> {}, failed |-> FALSE,
         err |-> Fault("")]

(***************************************************************************)
(* What clients send.  The profile names the workload: "gate" sends every  *)
(* kind of credential and payload to every route; "credential" signs in    *)
(* and presents the credential received; "jobs" and "accounts" send        *)
(* well-formed requests with varied contents to one module.                *)
(***************************************************************************)
Never == MaxTime + JWT_EXPIRES_IN + 1

\* credentials a client can hold: signed by this service or by someone else
Signed(user, secret, exp) ==
    [kind |-> "jwt", secret |-> secret, exp |-> exp, payload |-> Identity(user)]
GoodTokens == {Signed(u, VerifySecret, Never) : u \in SeedUsers}
BadTokens == {NoToken, Malformed}
                \cup {Signed(u, "someone-else", Never) : u \in {HR1, U3}}
                \cup {Signed(u, VerifySecret, 0) : u \in {HR1}}

Tokens(p) ==
    CASE p = "gate" -> GoodTokens \cup BadTokens
      [] p = "credential" -> {NoToken} \cup (IF last.token.kind = "jwt" THEN {last.token} ELSE {})
      [] OTHER -> GoodTokens

Open == {NoToken}
None == [none |-> Absent]

Req(token, params, query, body) ==
    [originalUrl |-> "", token |-> token, params |-> params, query |-> query, body |-> body,
     file |-> Absent, user |-> NoUser, ext |-> Ext0]
BodyReqs(tokens, bodies) == {Req(t, None, None, b) : t \in tokens, b \in bodies}
QueryReqs(tokens, queries) == {Req(t, None, q, None) : t \in tokens, q \in queries}
ParamReqs(tokens, ids) == {Req(t, [id |-> i], None, None) : t \in tokens, i \in ids}

\* the job of the first HR account, and an id no job has yet
JobIds(p) ==
    IF p \in {"gate", "apply"} THEN {IdStr(SeedJob.id), IdStr(FirstFreeId)}
    ELSE {IdStr(i) : i \in SeedJob.id..(MaxId + 1)}

signUpBodies(p) ==
    IF p = "status"
    THEN [firstName : {"Ann"}, lastName : {"Lee"}, email : {"new@x.io"},
          password : {"Passw0rd1"}, DOB : {"1990-01-01"}, mobileNumber : {"01000000004"},
          recoveryEmail : {"new@x.io"}, role : {Absent}]
    ELSE IF p = "gate"
    THEN [firstName : {Absent, "Ann"}, lastName : {Absent, "Lee"},
          email : {"not-an-email", "new@x.io"}, password : {"Passw0rd1"},
          DOB : {"1990-01-01", "2999-01-01"},
          mobileNumber : {"01000000004"}, recoveryEmail : {"new@x.io"},
          role : {Absent, "Intern"}]
    ELSE [firstName : {"Ann"}, lastName : {"Lee"},
          email : {"new@x.io", "hr1@x.io", "HR1@x.io"}, password : {"Passw0rd1"},
          DOB : {"1990-01-01"},
          mobileNumber : {"01000000001", "01000000004"}, recoveryEmail : {"new@x.io"},
          role : {Absent, "Company_HR"}]

signInBodies(p) ==
    CASE p = "gate" -> [emailOrRecoveryEmailOrMobile : {Absent, "01000000003"},
                        password : {Absent, "Passw0rd1"}]
      [] p \in {"credential", "status"} ->
                       [emailOrRecoveryEmailOrMobile : {"hr1@x.io", "01000000003"},
                              password : {"Passw0rd1", "Passw0rd2"}]
      [] OTHER -> [emailOrRecoveryEmailOrMobile : {"hr1@x.io", "hr2@x.io"},
                   password : {"Passw0rd1"}]

updateAccountBodies(p) ==
    IF p = "status"
    THEN [firstName : {Absent}, lastName : {Absent}, email : {Absent, "new@x.io"},
          DOB : {Absent}, mobileNumber : {Absent}, recoveryEmail : {Absent}]
    ELSE IF p = "gate"
    THEN [firstName : {Absent}, lastName : {Absent}, email : {Absent, "not-an-email"},
          DOB : {Absent}, mobileNumber : {Absent, "123"}, recoveryEmail : {Absent}]
    ELSE [firstName : {Absent}, lastName : {Absent},
          email : {Absent, "hr2@x.io", "HR1@x.io", "new@x.io"},
          DOB : {Absent}, mobileNumber : {Absent, "01000000002", "01000000004"},
          recoveryEmail : {Absent}]

updatePasswordBodies(p) ==
    [currentPassword : {Absent, "Passw0rd1", "weak"}, newPassword : {Absent, "Passw0rd2"}]

forgetPasswordReqs(p) ==
    IF p = "recovery"
    THEN {[Req(NoToken, None, None, b) EXCEPT !.ext.otp = o, !.ext.mailOk = ok] :
             b \in [emailOrMobile : {"u3@x.io", "01000000001", "nobody@x.io"}],
             o \in ValidOtps, ok \in BOOLEAN}
    ELSE {[Req(NoToken, None, None, b) EXCEPT !.ext.otp = "111111"] :
             b \in [emailOrMobile : {Absent, "123", "u3@x.io"}]}

verifyOTPBodies(p) ==
    IF p = "recovery"
    THEN [emailOrMobile : {"u3@x.io", "01000000001", "nobody@x.io"}, otp : ValidOtps,
          newPassword : {"Passw0rd2"}]
    ELSE [emailOrMobile : {Absent, "u3@x.io"}, otp : {Absent, "111111", "12a", "123"},
          newPassword : {"Passw0rd2", "weak"}]

addCompanyBodies(p) ==
    IF p = "gate"
    THEN [companyName : {Absent, "Globex"}, description : {"text"}, industry : {"text"},
          address : {"text"}, numberOfEmployees : {"1-10 employees", "many"},
          companyEmail : {"hr2@x.io"}, companyHR : {"2", "text"}]
    ELSE [companyName : {"Acme", "Globex"}, description : {"text"}, industry : {"text"},
          address : {"text"}, numberOfEmployees : {"1-10 employees"},
          companyEmail : {"hr1@x.io", "hr2@x.io"}, companyHR : {"1", "2"}]

updateCompanyBodies(p) ==
    IF p = "company"
    THEN [companyName : {Absent, "Globex"}, description : {Absent}, industry : {Absent},
          address : {Absent}, numberOfEmployees : {Absent},
          companyEmail : {Absent, "hr2@x.io"}, companyHR : {Absent, "2"}]
    ELSE IF p = "gate"
    THEN [companyName : {Absent}, description : {Absent}, industry : {Absent},
          address : {Absent}, numberOfEmployees : {Absent, "many"},
          companyEmail : {Absent, "not-an-email"}, companyHR : {Absent}]
    ELSE [companyName : {Absent, "Acme", "Globex"}, description : {Absent}, industry : {Absent},
          address : {Absent}, numberOfEmployees : {Absent},
          companyEmail : {Absent, "hr1@x.io", "hr2@x.io"}, companyHR : {Absent}]

addJobBodies(p) ==
    IF p = "gate"
    THEN [jobTitle : {Absent, "text"}, jobLocation : {"onsite", "anywhere"},
          workingTime : {"full-time"}, seniorityLevel : {"Junior"},
          jobDescription : {"text"}, technicalSkills : {"[js]", "js"}, softSkills : {"[sql]"}]
    ELSE [jobTitle : {"text"}, jobLocation : {"onsite", "hybrid"},
          workingTime : {"full-time"}, seniorityLevel : {"Junior"},
          jobDescription : {"text"}, technicalSkills : {"[js]"}, softSkills : {"[sql]"}]

updateJobBodies(p) ==
    IF p = "gate"
    THEN [jobTitle : {Absent}, jobLocation : {Absent, "hybrid", "anywhere"},
          workingTime : {Absent, "sometimes"}, seniorityLevel : {Absent},
          jobDescription : {Absent}, technicalSkills : {Absent}, softSkills : {Absent}]
    ELSE [jobTitle : {Absent}, jobLocation : {Absent, "remotely"},
          workingTime : {Absent}, seniorityLevel : {Absent},
          jobDescription : {Absent}, technicalSkills : {Absent}, softSkills : {Absent}]

filterQueries(p) ==
    IF p = "filter"
    THEN [workingTime : {Absent}, jobLocation : {Absent, "onsite", "hybrid"},
          seniorityLevel : {Absent}, jobTitle : {Absent}, technicalSkills : {Absent}]
    ELSE
    [workingTime : {Absent}, jobLocation : {Absent, "anywhere"},
     seniorityLevel : {Absent, "Intern"}, jobTitle : {Absent}, technicalSkills : {Absent}]

applyReqs(p) ==
    IF p = "apply"
    THEN {[Req(t, None, None, b) EXCEPT !.file = f, !.ext.url = "https://assets/cv2",
                                        !.ext.uploadOk = up, !.ext.unlinkOk = rm] :
             t \in Tokens(p),
             b \in [jobId : JobIds(p), userTechSkills : {"[js]"}, userSoftSkills : {"[sql]"}],
             f \in {Absent, "uploads/cv.pdf"}, up \in BOOLEAN, rm \in BOOLEAN}
         \cup
         {[Req(t, None, None, b) EXCEPT !.file = "uploads/cv.pdf",
                                        !.ext.url = "https://assets/cv2", !.ext.saveOk = sv] :
             t \in Tokens(p), sv \in BOOLEAN,
             b \in {[jobId |-> IdStr(SeedJob.id), userTechSkills |-> "js",
                     userSoftSkills |-> "[sql]"],
                    [jobId |-> IdStr(SeedJob.id), userTechSkills |-> "[js]",
                     userSoftSkills |-> Absent],
                    [jobId |-> IdStr(SeedJob.id), userTechSkills |-> "[js]",
                     userSoftSkills |-> "[sql]"]}}
    ELSE
    {[Req(t, None, None, b) EXCEPT !.file = f, !.ext.url = "https://assets/cv"] :
        t \in Tokens(p),
        b \in [jobId : IF p = "gate" THEN {Absent, IdStr(SeedJob.id)} ELSE JobIds(p),
               userTechSkills : IF p = "gate" THEN {Absent, "[js]"} ELSE {"[js]"},
               userSoftSkills : {"[sql]"}],
        f \in IF p = "gate" THEN {"uploads/cv.pdf"} ELSE {Absent, "uploads/cv.pdf"}}

Requests(route, p) ==
    CASE route = "signup" -> BodyReqs(Open, signUpBodies(p))
      [] route = "SignIn" -> BodyReqs(Open, signInBodies(p))
      [] route = "logout" -> BodyReqs(Tokens(p), {None})
      [] route = "updateAccount" -> BodyReqs(Tokens(p), updateAccountBodies(p))
      [] route = "deleteAccount" -> BodyReqs(Tokens(p), {None})
      [] route = "getUserData" -> BodyReqs(Tokens(p), {None})
      [] route = "getProfileData" -> QueryReqs(Open, [userId : {Absent, "1"}])
      [] route = "getAccountsByRecoveryEmail" ->
             QueryReqs(Open, [recoveryEmail : {Absent, "not-an-email", "u3@x.io"}])
      [] route = "updatePassword" -> BodyReqs(Tokens(p), updatePasswordBodies(p))
      [] route = "forgetPassword" -> forgetPasswordReqs(p)
      [] route = "verifyOTPAndSetNewPassword" -> BodyReqs(Open, verifyOTPBodies(p))
      [] route = "addCompany" -> BodyReqs(Tokens(p), addCompanyBodies(p))
      [] route = "updateCompanyData" -> BodyReqs(Tokens(p), updateCompanyBodies(p))
      [] route = "deleteCompanyData" -> BodyReqs(Tokens(p), {None})
      [] route = "searchForCompanyWithName" ->
             QueryReqs(Tokens(p), [companyName : {Absent, "Acme"}])
      [] route = "getCompanyData" -> ParamReqs(Tokens(p), {IdStr(SeedCompany.id)})
      [] route = "getAllApplicationsForSpecificJob" -> ParamReqs(Tokens(p), JobIds(p))
      [] route = "addJob" -> BodyReqs(Tokens(p), addJobBodies(p))
      [] route = "updateJob" ->
             {[r EXCEPT !.params = [id |-> i]] :
                 r \in BodyReqs(Tokens(p), updateJobBodies(p)), i \in JobIds(p)}
      [] route = "deleteJob" -> ParamReqs(Tokens(p), JobIds(p))
      [] route = "JobsWithCompaniesInfo" -> BodyReqs(Tokens(p), {None})
      [] route = "getAllJobsForSpecificCompany" ->
             QueryReqs(Tokens(p), [companyName : {Absent, "Acme"}])
      [] route = "getFilteredJobs" -> QueryReqs(Tokens(p), filterQueries(p))
      [] route = "applyToJob" -> applyReqs(p)
      [] route = "*" ->
             {[Req(t, None, None, None) EXCEPT !.originalUrl = path] :
                 t \in Tokens(p), path \in {"/", "/user", "/job/addJobs", "/user/signup/1"}}

\* the requests one behaviour of the workload sends (0: as many as it likes)
Budget(p) == IF p = "gate" THEN MaxRequests ELSE 0

(***************************************************************************)
(* One action per endpoint: a request of the workload goes through the     *)
(* route's middleware and controller and is answered.                      *)
(***************************************************************************)
\* a client sends its next request once the last response was delivered, or at
\* once when it presents the credential that response gave it
\* the workload still has requests to send
Accepting(p) == IF Budget(p) = 0 THEN TRUE ELSE served < Budget(p)

Ready(req, p) ==
    /\ IF last.route = "" THEN TRUE ELSE last.token.kind = "jwt" /\ req.token = last.token
    /\ IF Budget(p) = 0 THEN TRUE ELSE served < Budget(p)

Handle(route, req, p, s) ==
    /\ s.db.nextId <= MaxId + 1
    /\ users' = s.db.users
    /\ companies' = s.db.companies
    /\ jobs' = s.db.jobs
    /\ applications' = s.db.applications
    /\ nextId' = s.db.nextId
    /\ last' = [route |-> route, req |-> req, got |-> s.got, ran |-> s.ran,
                status |-> s.res.status, message |-> s.res.message,
                token |-> s.res.token, data |-> s.res.data,
                failed |-> s.failed, err |-> s.err]
    /\ served' = IF Budget(p) = 0 THEN served ELSE served + 1
    /\ UNCHANGED <<JWT_SECRET, now, inflight>>

signUpRoute(p) ==
    /\ Accepting(p)
    /\ \E req \in Requests("signup", p) :
           /\ Ready(req, p)
           /\ Handle("signup", req, p,
                     Serve(signupChain,
                           signUp(Db, Passed(signupChain, req, now)),
                           req, Db, now))
SignInRoute(p) ==
    /\ Accepting(p)
    /\ \E req \in Requests("SignIn", p) :
           /\ Ready(req, p)
           /\ Handle("SignIn", req, p,
                     Serve(SignInChain,
                           SignIn(Db, Passed(SignInChain, req, now), JWT_SECRET, now),
                           req, Db, now))
logoutRoute(p) ==
    /\ Accepting(p)
    /\ \E req \in Requests("logout", p) :
           /\ Ready(req, p)
           /\ Handle("logout", req, p,
                     Serve(logoutChain,
                           logout(Db, Passed(logoutChain, req, now)),
                           req, Db, now))
updateAccountRoute(p) ==
    /\ Accepting(p)
    /\ \E req \in Requests("updateAccount", p) :
           /\ Ready(req, p)
           /\ Handle("updateAccount", req, p,
                     Serve(updateAccountChain,
                           updateAccount(Db, Passed(updateAccountChain, req, now)),
                           req, Db, now))
deleteAccountRoute(p) ==
    /\ Accepting(p)
    /\ \E req \in Requests("deleteAccount", p) :
           /\ Ready(req, p)
           /\ Handle("deleteAccount", req, p,
                     Serve(deleteAccountChain,
                           deleteAccount(Db, Passed(deleteAccountChain, req, now)),
                           req, Db, now))
getUserDataRoute(p) ==
    /\ Accepting(p)
    /\ \E req \in Requests("getUserData", p) :
           /\ Ready(req, p)
           /\ Handle("getUserData", req, p,
                     Serve(getUserDataChain,
                           getUserData(Db, Passed(getUserDataChain, req, now)),
                           req, Db, now))
getProfileDataRoute(p) ==
    /\ Accepting(p)
    /\ \E req \in Requests("getProfileData", p) :
           /\ Ready(req, p)
           /\ Handle("getProfileData", req, p,
                     Serve(getProfileDataChain,
                           getProfileData(Db, Passed(getProfileDataChain, req, now)),
                           req, Db, now))
getAccountsByRecoveryEmailRoute(p) ==
    /\ Accepting(p)
    /\ \E req \in Requests("getAccountsByRecoveryEmail", p) :
           /\ Ready(req, p)
           /\ Handle("getAccountsByRecoveryEmail", req, p,
                     Serve(getAccountsByRecoveryEmailChain,
                           getAccountsByRecoveryEmail(Db, Passed(getAccountsByRecoveryEmailChain, req, now)),
                           req, Db, now))
updatePasswordRoute(p) ==
    /\ Accepting(p)
    /\ \E req \in Requests("updatePassword", p) :
           /\ Ready(req, p)
           /\ Handle("updatePassword", req, p,
                     Serve(updatePasswordChain,
                           updatePassword(Db, Passed(updatePasswordChain, req, now)),
                           req, Db, now))
forgetPasswordRoute(p) ==
    /\ Accepting(p)
    /\ \E req \in Requests("forgetPassword", p) :
           /\ Ready(req, p)
           /\ Handle("forgetPassword", req, p,
                     Serve(forgetPasswordChain,
                           forgetPassword(Db, Passed(forgetPasswordChain, req, now), now),
                           req, Db, now))
verifyOTPAndSetNewPasswordRoute(p) ==
    /\ Accepting(p)
    /\ \E req \in Requests("verifyOTPAndSetNewPassword", p) :
           /\ Ready(req, p)
           /\ Handle("verifyOTPAndSetNewPassword", req, p,
                     Serve(verifyOTPAndSetNewPasswordChain,
                           verifyOTPAndSetNewPassword(Db, Passed(verifyOTPAndSetNewPasswordChain, req, now), now),
                           req, Db, now))
addCompanyRoute(p) ==
    /\ Accepting(p)
    /\ \E req \in Requests("addCompany", p) :
           /\ Ready(req, p)
           /\ Handle("addCompany", req, p,
                     Serve(addCompanyChain,
                           addCompany(Db, Passed(addCompanyChain, req, now)),
                           req, Db, now))
updateCompanyDataRoute(p) ==
    /\ Accepting(p)
    /\ \E req \in Requests("updateCompanyData", p) :
           /\ Ready(req, p)
           /\ Handle("updateCompanyData", req, p,
                     Serve(updateCompanyDataChain,
                           updateCompanyData(Db, Passed(updateCompanyDataChain, req, now)),
                           req, Db, now))
deleteCompanyDataRoute(p) ==
    /\ Accepting(p)
    /\ \E req \in Requests("deleteCompanyData", p) :
           /\ Ready(req, p)
           /\ Handle("deleteCompanyData", req, p,
                     Serve(deleteCompanyDataChain,
                           deleteCompanyData(Db, Passed(deleteCompanyDataChain, req, now)),
                           req, Db, now))
searchForCompanyWithNameRoute(p) ==
    /\ Accepting(p)
    /\ \E req \in Requests("searchForCompanyWithName", p) :
           /\ Ready(req, p)
           /\ Handle("searchForCompanyWithName", req, p,
                     Serve(searchForCompanyWithNameChain,
                           searchForCompanyWithName(Db, Passed(searchForCompanyWithNameChain, req, now)),
                           req, Db, now))
getCompanyDataRoute(p) ==
    /\ Accepting(p)
    /\ \E req \in Requests("getCompanyData", p) :
           /\ Ready(req, p)
           /\ Handle("getCompanyData", req, p,
                     Serve(getCompanyDataChain,
                           getCompanyData(Db, Passed(getCompanyDataChain, req, now)),
                           req, Db, now))
getAllApplicationsForSpecificJobRoute(p) ==
    /\ Accepting(p)
    /\ \E req \in Requests("getAllApplicationsForSpecificJob", p) :
           /\ Ready(req, p)
           /\ Handle("getAllApplicationsForSpecificJob", req, p,
                     Serve(getAllApplicationsForSpecificJobChain,
                           getAllApplicationsForSpecificJob(Db, Passed(getAllApplicationsForSpecificJobChain, req, now)),
                           req, Db, now))
addJobRoute(p) ==
    /\ Accepting(p)
    /\ \E req \in Requests("addJob", p) :
           /\ Ready(req, p)
           /\ Handle("addJob", req, p,
                     Serve(addJobChain,
                           addJob(Db, Passed(addJobChain, req, now)),
                           req, Db, now))
updateJobRoute(p) ==
    /\ Accepting(p)
    /\ \E req \in Requests("updateJob", p) :
           /\ Ready(req, p)
           /\ Handle("updateJob", req, p,
                     Serve(updateJobChain,
                           updateJob(Db, Passed(updateJobChain, req, now)),
                           req, Db, now))
deleteJobRoute(p) ==
    /\ Accepting(p)
    /\ \E req \in Requests("deleteJob", p) :
           /\ Ready(req, p)
           /\ Handle("deleteJob", req, p,
                     Serve(deleteJobChain,
                           deleteJob(Db, Passed(deleteJobChain, req, now)),
                           req, Db, now))
JobsWithCompaniesInfoRoute(p) ==
    /\ Accepting(p)
    /\ \E req \in Requests("JobsWithCompaniesInfo", p) :
           /\ Ready(req, p)
           /\ Handle("JobsWithCompaniesInfo", req, p,
                     Serve(JobsWithCompaniesInfoChain,
                           JobsWithCompaniesInfo(Db, Passed(JobsWithCompaniesInfoChain, req, now)),
                           req, Db, now))
getAllJobsForSpecificCompanyRoute(p) ==
    /\ Accepting(p)
    /\ \E req \in Requests("getAllJobsForSpecificCompany", p) :
           /\ Ready(req, p)
           /\ Handle("getAllJobsForSpecificCompany", req, p,
                     Serve(getAllJobsForSpecificCompanyChain,
                           getAllJobsForSpecificCompany(Db, Passed(getAllJobsForSpecificCompanyChain, req, now)),
                           req, Db, now))
getFilteredJobsRoute(p) ==
    /\ Accepting(p)
    /\ \E req \in Requests("getFilteredJobs", p) :
           /\ Ready(req, p)
           /\ Handle("getFilteredJobs", req, p,
                     Serve(getFilteredJobsChain,
                           getFilteredJobs(Db, Passed(getFilteredJobsChain, req, now)),
                           req, Db, now))
applyToJobRoute(p) ==
    /\ Accepting(p)
    /\ \E req \in Requests("applyToJob", p) :
           /\ Ready(req, p)
           /\ Handle("applyToJob", req, p,
                     Serve(applyToJobChain,
                           applyToJob(Db, Passed(applyToJobChain, req, now)),
                           req, Db, now))

\* a path no router has
unmatchedRoute(p) ==
    /\ Accepting(p)
    /\ \E req \in Requests("*", p) :
           /\ Ready(req, p)
           /\ Handle("*", req, p, Serve(<<>>, notFound(Db, req), req, Db, now))

\* res.json(...) has been sent: the request is over
Deliver ==
    /\ last.route # ""
    /\ last' = Idle
    /\ UNCHANGED <<users, companies, jobs, applications, nextId, JWT_SECRET, now, served, inflight>>

Tick ==
    /\ now < MaxTime
    /\ now' = now + 1
    /\ UNCHANGED <<users, companies, jobs, applications, nextId, JWT_SECRET, last, served, inflight>>

(***************************************************************************)
(* Spec: every route under the gate workload.                              *)
(***************************************************************************)
InitDb ==
    /\ users = SeedUsers
    /\ companies = {SeedCompany}
    /\ jobs = {SeedJob}
    /\ applications = {SeedApplication}
    /\ nextId = FirstFreeId
    /\ now = 0
    /\ last = Idle
    /\ served = 0
    /\ inflight = {}

Init == InitDb /\ JWT_SECRET \in {"secret", "s3cr3t"}

Next ==
    \/ signUpRoute("gate")
    \/ SignInRoute("gate")
    \/ logoutRoute("gate")
    \/ updateAccountRoute("gate")
    \/ deleteAccountRoute("gate")
    \/ getUserDataRoute("gate")
    \/ getProfileDataRoute("gate")
    \/ getAccountsByRecoveryEmailRoute("gate")
    \/ updatePasswordRoute("gate")
    \/ forgetPasswordRoute("gate")
    \/ verifyOTPAndSetNewPasswordRoute("gate")
    \/ addCompanyRoute("gate")
    \/ updateCompanyDataRoute("gate")
    \/ deleteCompanyDataRoute("gate")
    \/ searchForCompanyWithNameRoute("gate")
    \/ getCompanyDataRoute("gate")
    \/ getAllApplicationsForSpecificJobRoute("gate")
    \/ addJobRoute("gate")
    \/ updateJobRoute("gate")
    \/ deleteJobRoute("gate")
    \/ JobsWithCompaniesInfoRoute("gate")
    \/ getAllJobsForSpecificCompanyRoute("gate")
    \/ getFilteredJobsRoute("gate")
    \/ applyToJobRoute("gate")
    \/ Deliver

Spec == Init /\ [][Next]_vars

(***************************************************************************)
(* SpecCredential: a client signs in and presents the credential it was    *)
(* given, at once or after time has passed.                                *)
(***************************************************************************)
InitCredential == InitDb /\ JWT_SECRET \in {"secret", "s3cr3t"}

NextCredential ==
    \/ SignInRoute("credential")
    \/ logoutRoute("credential")
    \/ getUserDataRoute("credential")
    \/ JobsWithCompaniesInfoRoute("credential")
    \/ Deliver
    \/ Tick

SpecCredential == InitCredential /\ [][NextCredential]_vars

(***************************************************************************)
(* SpecJobs: the HR accounts and the applicant work on jobs.               *)
(***************************************************************************)
NextJobs ==
    \/ addJobRoute("jobs")
    \/ updateJobRoute("jobs")
    \/ deleteJobRoute("jobs")
    \/ getAllApplicationsForSpecificJobRoute("jobs")
    \/ applyToJobRoute("jobs")
    \/ Deliver

SpecJobs == Init /\ [][NextJobs]_vars

(***************************************************************************)
(* SpecAccounts: sign-ups, account updates and company records that meet   *)
(* the emails, mobile numbers and company names already stored.            *)
(***************************************************************************)
NextAccounts ==
    \/ signUpRoute("accounts")
    \/ SignInRoute("accounts")
    \/ updateAccountRoute("accounts")
    \/ addCompanyRoute("accounts")
    \/ updateCompanyDataRoute("accounts")
    \/ Deliver

SpecAccounts == Init /\ [][NextAccounts]_vars

(***************************************************************************)
(* SpecRecovery: one-time codes are requested and presented while time     *)
(* passes.                                                                 *)
(***************************************************************************)
NextRecovery ==
    \/ forgetPasswordRoute("recovery")
    \/ verifyOTPAndSetNewPasswordRoute("recovery")
    \/ Deliver
    \/ Tick

SpecRecovery == Init /\ [][NextRecovery]_vars

(***************************************************************************)
(* SpecStatus: accounts sign up, sign in and out, and use the operations   *)
(* reserved to users that are signed in.                                   *)
(***************************************************************************)
NextStatus ==
    \/ signUpRoute("status")
    \/ SignInRoute("status")
    \/ logoutRoute("status")
    \/ updateAccountRoute("status")
    \/ deleteAccountRoute("status")
    \/ getUserDataRoute("status")
    \/ updatePasswordRoute("status")
    \/ Deliver

SpecStatus == Init /\ [][NextStatus]_vars

(***************************************************************************)
(* SpecBoundary: requests whose failures are of every kind the error       *)
(* handler gets: lists of validation messages, errors with a status,       *)
(* faults without one, and paths no router has.                            *)
(***************************************************************************)
NextBoundary ==
    \/ signUpRoute("gate")
    \/ getUserDataRoute("gate")
    \/ forgetPasswordRoute("recovery")
    \/ applyToJobRoute("apply")
    \/ unmatchedRoute("gate")
    \/ Deliver

SpecBoundary == Init /\ [][NextBoundary]_vars

(***************************************************************************)
(* SpecFilter: jobs are listed while jobs are added and deleted.           *)
(***************************************************************************)
NextFilter ==
    \/ addJobRoute("jobs")
    \/ deleteJobRoute("jobs")
    \/ getFilteredJobsRoute("filter")
    \/ Deliver

SpecFilter == Init /\ [][NextFilter]_vars

(***************************************************************************)
(* SpecCompany: the accounts add, update and delete company records.       *)
(***************************************************************************)
NextCompany ==
    \/ addCompanyRoute("company")
    \/ updateCompanyDataRoute("company")
    \/ deleteCompanyDataRoute("company")
    \/ Deliver

SpecCompany == Init /\ [][NextCompany]_vars

(***************************************************************************)
(* SpecOwner: the accounts create the records that name an owner:          *)
(* companies, jobs and applications.                                       *)
(***************************************************************************)
NextOwner ==
    \/ addCompanyRoute("company")
    \/ addJobRoute("jobs")
    \/ applyToJobRoute("jobs")
    \/ Deliver

SpecOwner == Init /\ [][NextOwner]_vars

(***************************************************************************)
(* SpecSignUpRace: signUp requests served concurrently.  A request runs    *)
(* to its first await (the pre-check), and resumes with the write.         *)
(***************************************************************************)
signUpArrive ==
    /\ Cardinality(inflight) < MaxInflight
    /\ \E req \in Requests("signup", "race") :
        LET g == RunChain(signupChain, req, now)
            hit == signUpFindOne(Db, g.req) # {}
        IN /\ g.kind = "next"
           /\ inflight' = inflight \cup
                  {[rid |-> Cardinality(inflight) + 1,
                    req |-> g.req,
                    pc |-> IF hit THEN "done" ELSE "create",
                    lost |-> FALSE,
                    status |-> IF hit THEN catchAsyncError(signUp(Db, g.req)).status ELSE 0]}
           /\ UNCHANGED <<users, companies, jobs, applications, nextId, JWT_SECRET, now,
                          last, served>>

signUpResume ==
    \E r \in inflight :
        LET c == signUpCreate(Db, r.req)
        IN /\ r.pc = "create"
           /\ c.db.nextId <= MaxId + 1
           /\ users' = c.db.users
           /\ nextId' = c.db.nextId
           /\ inflight' = (inflight \ {r}) \cup
                  {[r EXCEPT !.pc = "done", !.lost = c.thrown,
                             !.status = catchAsyncError(c).status]}
           /\ UNCHANGED <<companies, jobs, applications, JWT_SECRET, now, last, served>>

NextSignUpRace == signUpArrive \/ signUpResume

SpecSignUpRace == Init /\ [][NextSignUpRace]_vars

(***************************************************************************)
(* SpecApply: applyToJob served stage by stage, each await a point where   *)
(* other requests are served, next to deleteJob requests.                  *)
(***************************************************************************)
applyArrive ==
    /\ Cardinality(inflight) < MaxApplying
    /\ \E req \in Requests("applyToJob", "apply") :
        LET g == RunChain(applyToJobChain, req, now)
            run == IF g.kind = "next" THEN applyStart(g.req)
                   ELSE [applyStart(g.req) EXCEPT !.pc = "done", !.thrown = TRUE, !.err = g.err,
                                                  !.local = Buffered(req, now)]
        IN /\ inflight' = inflight \cup {run @@ [rid |-> Cardinality(inflight) + 1]}
           /\ UNCHANGED <<users, companies, jobs, applications, nextId, JWT_SECRET, now,
                          last, served>>

applyResume ==
    \E r \in inflight :
        LET s == applyStage(Db, r)
        IN /\ r.pc # "done"
           /\ s.db.nextId <= MaxId + 1
           /\ applications' = s.db.applications
           /\ nextId' = s.db.nextId
           /\ inflight' = (inflight \ {r}) \cup {s.run}
           /\ UNCHANGED <<users, companies, jobs, JWT_SECRET, now, last, served>>

NextApply ==
    \/ applyArrive
    \/ applyResume
    \/ deleteJobRoute("apply")
    \/ Deliver

SpecApply == Init /\ [][NextApply]_vars

(***************************************************************************)
(* What the routes declare, read off their middleware.                     *)
(***************************************************************************)
Guarded(route) == \E i \in DOMAIN Chain(route) : Chain(route)[i].mw = "auth"
RequiredRole(route) ==
    Chain(route)[CHOOSE i \in DOMAIN Chain(route) : Chain(route)[i].mw = "auth"].role
Gated(route) == \E i \in DOMAIN Chain(route) : Chain(route)[i].mw = "validate"
GateOf(route) ==
    Chain(route)[CHOOSE i \in DOMAIN Chain(route) : Chain(route)[i].mw = "validate"]

\* the request section a route's gate is declared for
Payload(route, req) ==
    CASE GateOf(route).target = "query" -> req.query
      [] GateOf(route).target = "params" -> req.params
      [] OTHER -> req.body
Violations(route, req) == JoiValidate(GateOf(route).schema, Payload(route, req))

\* a credential that verifies now, and one the route's role requirement accepts
Verifies(token) == token.kind = "jwt" /\ token.secret = VerifySecret /\ now < token.exp
RoleAccepted(route, token) ==
    RequiredRole(route) = AnyRole \/ token.payload.role = RequiredRole(route)
PassesIdentity(route, token) ==
    Guarded(route) => Verifies(token) /\ RoleAccepted(route, token)

Answered == last.route # ""
Rejected(status) == last.status = status /\ ~last.ran

(***************************************************************************)
(* C1. On every route guarded by auth(role): no credential is rejected     *)
(* with 401; a credential that fails verification (wrong secret, expired,  *)
(* malformed) is rejected with 498 whatever its role; a credential that    *)
(* verifies but carries another role than the required one is rejected     *)
(* with 403; in none of these cases does the controller run.               *)
(***************************************************************************)
C1_AuthPrecedence ==
    (Answered /\ Guarded(last.route)) =>
        LET token == last.req.token
        IN /\ token.kind = "none" => Rejected(401)
           /\ (token.kind # "none" /\ ~Verifies(token)) => Rejected(498)
           /\ (Verifies(token) /\ ~RoleAccepted(last.route, token)) => Rejected(403)

\* a credential with the wrong secret and the wrong role, answered 498
C1_Witness ==
    /\ last.route = "addJob"
    /\ last.req.token.kind = "jwt"
    /\ last.req.token.secret # VerifySecret
    /\ last.req.token.payload.role = "User"
    /\ Rejected(498)

(***************************************************************************)
(* C2. Round trip of the credential: a credential returned by a            *)
(* successful SignIn and presented before its expiry passes identity       *)
(* verification, and the identity attached to the request is the id,       *)
(* username, email and role of the user that signed in.                    *)
(***************************************************************************)
C2_CredentialRoundTrip ==
    (Answered /\ Guarded(last.route) /\ last.req.token.kind = "jwt"
         /\ now < last.req.token.exp) =>
        /\ last.ran
        /\ last.got.user = last.req.token.payload
        /\ \E u \in users : Identity(u) = last.got.user

\* the round trip where it works: the process secret is the one auth verifies with
C2_Witness ==
    /\ last.route = "getUserData"
    /\ last.req.token.kind = "jwt"
    /\ last.req.token.secret = JWT_SECRET
    /\ last.ran
    /\ last.got.user = Identity(U3)

(***************************************************************************)
(* C3. On every validation-gated route the gate evaluates the whole        *)
(* designated section: a payload with N violations is rejected with 400    *)
(* and the list of exactly these N messages in schema order, and a payload *)
(* with no violation reaches the controller unchanged.                     *)
(***************************************************************************)
C3_GateCollectsAll ==
    (Answered /\ Gated(last.route) /\ PassesIdentity(last.route, last.req.token)) =>
        LET errors == Violations(last.route, last.req)
            identity == IF Guarded(last.route) THEN last.req.token.payload ELSE NoUser
        IN IF errors # <<>>
           THEN Rejected(400) /\ last.message = List(errors)
           ELSE last.ran /\ last.got = [last.req EXCEPT !.user = identity]

\* the gate where it works: a sign-up missing two fields and breaking two rules
C3_Witness ==
    /\ last.route = "signup"
    /\ Len(Violations("signup", last.req)) = 4
    /\ Rejected(400)
    /\ last.message = List(Violations("signup", last.req))

(***************************************************************************)
(* C4. PUT /job/updateJob/:id validates the body against updateJobSchema:  *)
(* a body that violates the schema is rejected with 400, never reaches     *)
(* updateJob, and no Job takes a value the schema forbids.                 *)
(***************************************************************************)
C4_UpdateJobBodyValidated ==
    /\ (Answered /\ last.route = "updateJob"
           /\ PassesIdentity("updateJob", last.req.token)
           /\ JoiValidate(updateJobSchema, last.req.body) # <<>>) => Rejected(400)
    /\ \A j \in jobs : j.jobLocation \in JobLocations /\ j.workingTime \in WorkingTimes

(***************************************************************************)
(* C5. On every route with both a validation gate and identity             *)
(* verification, a request that is invalid against the schema and carries  *)
(* no credential: as stated, it receives the 400 of the gate; as the       *)
(* routes are registered, it receives the 401 of identity verification,    *)
(* which runs first.                                                       *)
(***************************************************************************)
C5_ValidationBeforeIdentity ==
    (Answered /\ Guarded(last.route) /\ Gated(last.route)
         /\ last.req.token.kind = "none" /\ Violations(last.route, last.req) # <<>>) =>
        Rejected(400)

C5_IdentityBeforeValidation ==
    (Answered /\ Guarded(last.route) /\ Gated(last.route)
         /\ last.req.token.kind = "none" /\ Violations(last.route, last.req) # <<>>) =>
        Rejected(401) /\ last.message = Str("Please SignIn")

C5_Witness ==
    /\ last.route = "addJob"
    /\ last.req.token.kind = "none"
    /\ Len(Violations("addJob", last.req)) >= 2
    /\ Rejected(401)

\* a step that answers a request, and the database left as it was
Answers(routes) == last.route = "" /\ last'.route \in routes
DbUnchanged == UNCHANGED <<users, companies, jobs, applications, nextId>>
Caller == last'.req.token.payload
Target == {j \in jobs : IdStr(j.id) = last'.req.params.id}

(***************************************************************************)
(* C6. Job ownership: on an existing Job, updateJob and deleteJob called   *)
(* by a Company_HR identity other than the Job's addedBy fail with 403 and *)
(* leave the Job unchanged; called by the identity that created the Job    *)
(* they succeed with 200; addJob records its caller as addedBy, and no     *)
(* step changes the addedBy of a Job.                                      *)
(***************************************************************************)
C6_JobOwnership ==
    [][/\ \A j \in jobs : \A k \in jobs' : k.id = j.id => k.addedBy = j.addedBy
       /\ (Answers({"addJob"}) /\ last'.status = 201) =>
              \A k \in jobs' \ jobs : IdStr(k.addedBy) = Caller.id
       /\ (Answers({"updateJob", "deleteJob"}) /\ last'.ran) =>
              \A j \in Target :
                  IF IdStr(j.addedBy) = Caller.id
                  THEN last'.status = 200
                  ELSE last'.status = 403 /\ DbUnchanged]_vars

\* the other HR account was refused on a job that exists
C6_Witness ==
    /\ last.route = "updateJob"
    /\ last.ran
    /\ last.status = 403
    /\ last.req.token.payload.role = "Company_HR"
    /\ \E j \in jobs : /\ IdStr(j.id) = last.req.params.id
                       /\ IdStr(j.addedBy) # last.req.token.payload.id

(***************************************************************************)
(* C7. Existence before ownership: updateJob, deleteJob and                *)
(* getAllApplicationsForSpecificJob called by a Company_HR identity with   *)
(* an id that no Job has answer 404 'Job not found', whatever jobs the     *)
(* caller owns, and write nothing.                                         *)
(***************************************************************************)
C7_ExistenceBeforeOwnership ==
    [][(Answers({"updateJob", "deleteJob", "getAllApplicationsForSpecificJob"})
            /\ last'.ran /\ Target = {}) =>
           /\ last'.status = 404
           /\ last'.message = Str("Job not found")
           /\ DbUnchanged]_vars

\* a caller that owns a job was answered 404 for an id that no job has
C7_Witness ==
    /\ last.route \in {"updateJob", "deleteJob", "getAllApplicationsForSpecificJob"}
    /\ last.ran
    /\ last.status = 404
    /\ \A j \in jobs : IdStr(j.id) # last.req.params.id
    /\ \E j \in jobs : IdStr(j.addedBy) = last.req.token.payload.id

(***************************************************************************)
(* C8. getAllApplicationsForSpecificJob called by a Company_HR identity    *)
(* that is not the addedBy owner of the existing target Job fails with     *)
(* 403, the status of the ownership mismatch on updateJob and deleteJob,   *)
(* with the message naming the owner, and returns no applications.         *)
(***************************************************************************)
C8_ApplicationsOwnerOnly ==
    (Answered /\ last.route = "getAllApplicationsForSpecificJob" /\ last.ran
         /\ \E j \in jobs : /\ IdStr(j.id) = last.req.params.id
                            /\ IdStr(j.addedBy) # last.got.user.id) =>
        /\ last.status = 403
        /\ last.message = Str("Only the owner can view the applications for their jobs")
        /\ last.data = {}

(***************************************************************************)
(* C9. Concurrent signUp requests with the same email, each suspended      *)
(* between the pre-check and the write: at most one is answered 201, at    *)
(* most one User record has that email in every reachable state, and the   *)
(* request that loses at the unique index is answered with a failure.      *)
(***************************************************************************)
SameEmail(e) == {r \in inflight : Lower(r.req.body.email) = e}

C9_SignUpRace ==
    /\ \A r \in inflight :
           LET e == Lower(r.req.body.email)
           IN /\ Cardinality({q \in SameEmail(e) : q.status = 201}) <= 1
              /\ Cardinality({u \in users : u.email = e}) <= 1
    /\ \A r \in inflight : r.lost => r.status >= 400

\* two requests passed the pre-check; one created the account, the other lost
C9_Witness ==
    \E r \in inflight : \E q \in SameEmail(Lower(r.req.body.email)) :
        /\ r.status = 201
        /\ q.lost
        /\ q.status = 500

(***************************************************************************)
(* C10. A uniqueness violation found by a pre-check is answered 409 and    *)
(* writes nothing: signUp with the email or mobile number of an existing   *)
(* User, addCompany with the name or email of an existing Company,         *)
(* updateAccount with the email or mobile number of another User,          *)
(* updateCompanyData with the name or email of another Company.            *)
(***************************************************************************)
UserTaken(email, mobileNumber, except) ==
    \E u \in users : /\ IdStr(u.id) # except
                     /\ u.email = Lower(email) \/ u.mobileNumber = mobileNumber
CompanyTaken(companyName, companyEmail, except) ==
    \E c \in companies : /\ c.id \notin except
                         /\ c.companyName = companyName \/ c.companyEmail = companyEmail
Conflict409 == last'.status = 409 /\ DbUnchanged

C10_ConflictIs409 ==
    [][LET b == last'.req.body
       IN /\ (Answers({"signup"}) /\ last'.ran /\ UserTaken(b.email, b.mobileNumber, ""))
                 => Conflict409
          /\ (Answers({"addCompany"}) /\ last'.ran
                 /\ CompanyTaken(b.companyName, b.companyEmail, {}))
                 => Conflict409
          /\ (Answers({"updateAccount"}) /\ last'.ran
                 /\ \E u \in users : IdStr(u.id) = Caller.id /\ u.status = "online"
                 /\ UserTaken(b.email, b.mobileNumber, Caller.id))
                 => Conflict409
          /\ (Answers({"updateCompanyData"}) /\ last'.ran
                 /\ \E c \in companies :
                        /\ IdStr(c.companyHR) = Caller.id
                        /\ CompanyTaken(b.companyName, b.companyEmail, {c.id}))
                 => Conflict409]_vars

(***************************************************************************)
(* C11. For a user whose one-time code was stored by forgetPassword at     *)
(* time t (the code drawn, expiring at t + 10 minutes):                    *)
(* verifyOTPAndSetNewPassword with the matching code later than            *)
(* t + 10 minutes fails with 400 'OTP expired' and leaves the password     *)
(* unchanged; with the matching code no later than t + 10 minutes it       *)
(* answers 200 and replaces the password; with a code that does not match  *)
(* or an unknown email/mobile it fails with 400 'Invalid email or OTP'     *)
(* whatever the time.                                                      *)
(***************************************************************************)
Ran(route) == last.route = "" /\ last'.route = route /\ last'.ran
Failed(status, text) == last'.status = status /\ last'.message = Str(text)
Holder(key) == UsersByEmailOrMobile(Db, key, key)
After(user) == CHOOSE u \in users' : u.id = user.id

C11_OtpWindow ==
    [][/\ Ran("forgetPassword") =>
            \A u \in Holder(last'.got.body.emailOrMobile) :
                u = First(Holder(last'.got.body.emailOrMobile)) =>
                    /\ After(u).otp = last'.req.ext.otp
                    /\ After(u).otpExpire = now + OtpValidity
       /\ Ran("verifyOTPAndSetNewPassword") =>
            LET b == last'.got.body
                found == Holder(b.emailOrMobile)
            IN IF found = {} \/ First(found).otp # b.otp
               THEN Failed(400, "Invalid email or OTP") /\ users' = users
               ELSE LET generated == First(found).otpExpire - OtpValidity
                    IN IF now > generated + OtpValidity
                       THEN Failed(400, "OTP expired") /\ users' = users
                       ELSE /\ last'.status = 200
                            /\ After(First(found)).password = Hash(b.newPassword)
                            /\ \A u \in users : u.id # First(found).id => u \in users']_vars

\* the code of u3, presented after its ten minutes: refused, the password kept
C11_Witness ==
    /\ last.route = "verifyOTPAndSetNewPassword"
    /\ last.status = 400
    /\ last.message = Str("OTP expired")
    /\ \E u \in users : u.id = U3.id /\ u.otp = last.req.body.otp /\ u.password = U3.password

(***************************************************************************)
(* C12. The one-time code is cleared after use and on the expiry check:    *)
(* after verifyOTPAndSetNewPassword succeeds, or finds the presented       *)
(* matching code expired, the user's otp and otpExpire are both cleared.   *)
(***************************************************************************)
C12_OtpCleared ==
    [][(/\ Ran("verifyOTPAndSetNewPassword")
        /\ last'.status = 200 \/ last'.message = Str("OTP expired")) =>
            LET user == First(Holder(last'.got.body.emailOrMobile))
            IN After(user).otp = Null /\ After(user).otpExpire = 0]_vars

\* the code cleared where it is: after the password was replaced
C12_Witness ==
    /\ last.route = "verifyOTPAndSetNewPassword"
    /\ last.status = 200
    /\ \E u \in users : u.id = U3.id /\ u.otp = Null /\ u.password = Hash("Passw0rd2")

(***************************************************************************)
(* C13. applyToJob by an authenticated User with a valid body and the      *)
(* jobId of an existing Job, with no resume file attached: answered 400    *)
(* 'Resume file is required', no upload performed, no Application created. *)
(***************************************************************************)
Ended(run) == run.pc = "done"
Went(run, stage) == \E i \in DOMAIN run.stages : run.stages[i] = stage
JobFound(run) == run.job \in Ids
Saved(run) == run.created \in Ids

C13_ResumeRequired ==
    \A r \in inflight :
        (Ended(r) /\ JobFound(r) /\ r.req.file = Absent) =>
            /\ ~r.thrown
            /\ r.res.status = 400
            /\ r.res.message = Str("Resume file is required")
            /\ ~Went(r, "Upload")
            /\ ~Saved(r)
            /\ Cardinality(applications \ {SeedApplication})
                   = Cardinality({q \in inflight : q.created \in Ids})

\* an application for the seeded job without a file, refused
C13_Witness ==
    \E r \in inflight :
        /\ Ended(r)
        /\ r.job = SeedJob.id
        /\ r.req.file = Absent
        /\ r.res.status = 400
        /\ applications = {SeedApplication}

(***************************************************************************)
(* C14. A valid applyToJob submission (existing job, file attached,        *)
(* upload, persist and cleanup all succeed) is answered 201 and adds       *)
(* exactly one Application, whose jobId is the id of the Job looked up,    *)
(* whose userId is the subject id of the authenticated identity, and whose *)
(* userResume is the url the asset store returned for this upload; no      *)
(* other record is created or changed.                                     *)
(***************************************************************************)
ValidSubmission(run) ==
    /\ JobFound(run)
    /\ run.req.file # Absent
    /\ run.req.ext.uploadOk
    /\ run.req.ext.saveOk
    /\ run.req.ext.unlinkOk
CreatedBy(run) == {a \in applications : a.id = run.created}

C14_ApplicationRecord ==
    /\ \A r \in inflight :
           (Ended(r) /\ ValidSubmission(r)) =>
               /\ ~r.thrown /\ r.res.status = 201
               /\ Cardinality(CreatedBy(r)) = 1
               /\ \A a \in CreatedBy(r) :
                      /\ a.jobId = CastId(r.req.body.jobId)
                      /\ a.userId = CastId(r.req.token.payload.id)
                      /\ a.userResume = r.req.ext.url
    /\ Cardinality(applications \ {SeedApplication}) = Cardinality({r \in inflight : Saved(r)})
    /\ SeedApplication \in applications
    /\ users = SeedUsers
    /\ companies = {SeedCompany}

\* the applicant's submission for the seeded job, confirmed and recorded
C14_Witness ==
    \E r \in inflight :
        /\ Ended(r)
        /\ r.res.status = 201
        /\ \E a \in applications :
               a.id = r.created /\ a.jobId = SeedJob.id /\ a.userId = U3.id
                   /\ a.userResume = "https://assets/cv2"

(***************************************************************************)
(* C15. Partial failure of applyToJob: when upload and persistence         *)
(* succeed and the removal of the local file fails, the request ends as    *)
(* an unhandled fault, answered 500 and never 201, while the Application   *)
(* it created stays stored.                                                *)
(***************************************************************************)
C15_CleanupFailure ==
    \A r \in inflight :
        (Ended(r) /\ Went(r, "Cleanup") /\ ~r.req.ext.unlinkOk) =>
            /\ r.thrown
            /\ r.err.statusCode = NoStatus
            /\ catchAsyncError(r).status = 500
            /\ Cardinality(CreatedBy(r)) = 1

\* the file could not be removed: a 500, and the application is there
C15_Witness ==
    \E r \in inflight :
        /\ Ended(r)
        /\ ~r.req.ext.unlinkOk
        /\ catchAsyncError(r).status = 500
        /\ \E a \in applications : a.id = r.created /\ a.userResume = r.req.ext.url

(***************************************************************************)
(* C16. applyToJob goes once through Parse, Lookup, Asset presence,        *)
(* Upload, Persist, Cleanup in this order, no stage repeated, a failure at *)
(* a stage preventing every later one: the upload is attempted only after  *)
(* the Job was found and with a file present; an Application is created    *)
(* only after the upload succeeded (an upload failure is a fault and no    *)
(* Application); a job that does not exist gives 404 even when the file    *)
(* is missing too.                                                         *)
(***************************************************************************)
C16_OnePass ==
    \A r \in inflight :
        /\ r.stages = SubSeq(ApplyStages, 1, Len(r.stages))
        /\ ~Ended(r) => (~r.thrown /\ r.pc = ApplyStages[Len(r.stages) + 1])
        /\ (Ended(r) /\ (r.thrown \/ r.res.status # 201)) => ~Saved(r) \/ Went(r, "Cleanup")
        /\ Went(r, "Upload") => JobFound(r) /\ r.req.file # Absent
        /\ Saved(r) => Went(r, "Upload") /\ r.req.ext.uploadOk /\ r.url = r.req.ext.url
        /\ (Went(r, "Upload") /\ ~r.req.ext.uploadOk /\ r.pc # "Upload") =>
               /\ Ended(r) /\ r.thrown /\ catchAsyncError(r).status = 500
               /\ ~Went(r, "Persist") /\ ~Saved(r) /\ CreatedBy(r) = {}
        /\ (Ended(r) /\ Went(r, "Lookup") /\ ~JobFound(r)) =>
               /\ catchAsyncError(r).status = 404
               /\ r.stages = SubSeq(ApplyStages, 1, 2)

\* no such job and no file either: Lookup ends the run with 404
C16_Witness ==
    \E r \in inflight :
        /\ Ended(r)
        /\ r.req.file = Absent
        /\ ~JobFound(r)
        /\ catchAsyncError(r).status = 404

(***************************************************************************)
(* C17. At the moment applyToJob creates an Application, its jobId         *)
(* references a Job that exists in the database, whatever deleteJob        *)
(* requests are served while the workflow waits for the upload.            *)
(***************************************************************************)
C17_JobExistsAtCreation ==
    [][\A a \in applications' \ applications : \E j \in jobs : j.id = a.jobId]_vars

\* the usual case: the application is created while its job exists
C17_Witness ==
    \E r \in inflight : \E a \in applications : \E j \in jobs :
        a.id = r.created /\ j.id = a.jobId

(***************************************************************************)
(* C18. Status gating: when the User record of the authenticated identity  *)
(* has status 'offline', updateAccount, deleteAccount, getUserData and     *)
(* updatePassword fail with 401 'LogIn first' and leave the User records   *)
(* unchanged; a status becomes 'online' only by a successful SignIn and    *)
(* 'offline' only by logout, a new account starts 'offline'; logout of a   *)
(* user already offline answers 200 and writes nothing.                    *)
(***************************************************************************)
StatusGated == {"updateAccount", "deleteAccount", "getUserData", "updatePassword"}
Me == {u \in users : IdStr(u.id) = last'.got.user.id}
Offline == \E u \in Me : u.status = "offline"

C19_BoundaryFormat ==
    /\ (Answered /\ last.failed) =>
           /\ last.status = IF last.err.statusCode = NoStatus THEN 500 ELSE last.err.statusCode
           /\ last.message = last.err.message
           /\ last.message.isList = last.err.message.isList
           /\ last.token = NoToken /\ last.data = {}
    /\ (Answered /\ last.route \in Routes /\ Gated(last.route) /\ last.failed /\ ~last.ran
           /\ last.status = 400) =>
           last.message = List(Violations(last.route, last.req))
    /\ (Answered /\ last.route = "*") =>
           /\ last.failed
           /\ last.status = 404
           /\ last.message = Str(last.req.originalUrl \o " not found")

\* a fault without a status (the mail could not be sent), answered 500
C19_Witness ==
    /\ Answered
    /\ last.failed
    /\ last.err.statusCode = NoStatus
    /\ last.status = 500
    /\ last.message = Str("sendMail failed")

(***************************************************************************)
(* C20. getFilteredJobs has no side effects: from any database state a     *)
(* call with no query filters leaves every User, Company, Job and          *)
(* Application unchanged, and the same call made again with no write in    *)
(* between returns the same result: the same jobs with 200, or the same    *)
(* 404 when there is no Job.                                               *)
(***************************************************************************)
NoFilters(query) == \A k \in DOMAIN query : query[k] = Absent
DbAfter == [users |-> users', companies |-> companies', jobs |-> jobs',
            applications |-> applications', nextId |-> nextId']
Again(req) ==
    Serve(getFilteredJobsChain, getFilteredJobs(DbAfter, Passed(getFilteredJobsChain, req, now)),
          req, DbAfter, now)

C20_FilterIdempotent ==
    [][(Answers({"getFilteredJobs"}) /\ last'.ran /\ NoFilters(last'.req.query)) =>
           /\ DbUnchanged
           /\ last'.status = IF jobs = {} THEN 404 ELSE 200
           /\ {j.id : j \in last'.data} = {j.id : j \in jobs}
           /\ Again(last'.req).db = DbAfter
           /\ Again(last'.req).res.status = last'.status
           /\ Again(last'.req).res.message = last'.message
           /\ Again(last'.req).res.data = last'.data]_vars

\* all jobs listed, two of them, and nothing written
C20_Witness ==
    /\ last.route = "getFilteredJobs"
    /\ NoFilters(last.req.query)
    /\ last.status = 200
    /\ Cardinality(last.data) = 2
    /\ {j.id : j \in last.data} = {j.id : j \in jobs}

(***************************************************************************)
(* C21. Company ownership is resolved from the identity:                   *)
(* updateCompanyData and deleteCompanyData only modify or delete a Company *)
(* whose companyHR is the caller's subject id at the time of the lookup,   *)
(* and create none; a Company_HR caller that is the companyHR of no        *)
(* Company is answered 403, never 404, and no Company changes, whatever    *)
(* companies exist.                                                        *)
(***************************************************************************)
CompanyWrites == {"updateCompanyData", "deleteCompanyData"}
OwnedBy(idStr) == {c \in companies : IdStr(c.companyHR) = idStr}

C21_CompanyOwnership ==
    [][Answers(CompanyWrites) =>
           /\ \A c \in companies \ companies' : c \in OwnedBy(Caller.id) /\ last'.ran
           /\ {c.id : c \in companies'} \subseteq {c.id : c \in companies}
           /\ Cardinality(companies \ companies') <= 1
           /\ (last'.ran /\ OwnedBy(Caller.id) = {}) =>
                  /\ last'.status = 403
                  /\ companies' = companies
           /\ (last'.ran /\ last'.status = 200) => OwnedBy(Caller.id) # {}]_vars

\* the second HR account, which has no company, asks to delete one: 403
C21_Witness ==
    /\ last.route = "deleteCompanyData"
    /\ last.ran
    /\ last.got.user.id = IdStr(HR2.id)
    /\ last.status = 403
    /\ companies = {SeedCompany}

(***************************************************************************)
(* C22. The owner of every record created through the API is the subject   *)
(* id of the authenticated identity and never a value of the body: after   *)
(* a successful addCompany the new Company's companyHR is the caller's     *)
(* subject id, as Job.addedBy is after addJob and Application.userId after *)
(* applyToJob.                                                             *)
(***************************************************************************)
C22_OwnerFromIdentity ==
    [][Answers({"addCompany", "addJob", "applyToJob"}) =>
           /\ \A c \in companies' \ companies : IdStr(c.companyHR) = Caller.id
           /\ \A j \in jobs' \ jobs : IdStr(j.addedBy) = Caller.id
           /\ \A a \in applications' \ applications : IdStr(a.userId) = Caller.id]_vars

\* where the owner is the caller: a job added by the second HR account
C22_Witness ==
    /\ last.route = "addJob"
    /\ last.status = 201
    /\ last.req.token.payload.id = IdStr(HR2.id)
    /\ \E j \in jobs : j.id # SeedJob.id /\ j.addedBy = HR2.id

(***************************************************************************)
(* C23. A request rejected by identity verification (401, 498, 403) or by  *)
(* the validation gate (400) changes nothing that is stored: the User,     *)
(* Company, Job and Application records are the same after the request as  *)
(* before it, on every route.                                              *)
(***************************************************************************)
RejectedByMiddleware ==
    /\ Answers(Routes)
    /\ ~last'.ran
    /\ last'.status \in {400, 401, 403, 498}

C23_RejectionWritesNothing ==
    [][/\ RejectedByMiddleware => UNCHANGED <<users, companies, jobs, applications>>
       /\ (Answers(Routes) /\ ~last'.ran) => RejectedByMiddleware
       /\ (Answers(Routes) /\ ~PassesIdentity(last'.route, last'.req.token)) => ~last'.ran]_vars

\* after a successful sign-in, a sign-up the gate rejects with its list: nothing stored
C23_Witness ==
    /\ last.route = "signup"
    /\ Rejected(400)
    /\ last.message.isList
    /\ \E u \in users : u.status = "online"
    /\ Cardinality(users) = Cardinality(SeedUsers)

(***************************************************************************)
(* C24. In applyToJob the local copy of an attached resume is removed if   *)
(* and only if the upload and the Application write both succeeded: on     *)
(* every other terminal path on which a file was attached (validation 400, *)
(* decode fault, job not found 404, upload failure, persistence failure)   *)
(* the local copy is left in place, and the local copy is never removed    *)
(* before the Application record exists.                                   *)
(***************************************************************************)
Attached(run) == run.local # "none"
BothSucceeded(run) == Went(run, "Persist") /\ Saved(run)
NewlyRemoved(run) ==
    /\ run.local = "removed"
    /\ \A q \in inflight : q.rid = run.rid => q.local # "removed"

\* as stated: removed exactly when the upload and the write succeeded
C24_RemovedIffBothSucceeded ==
    [][\A r \in inflight' :
           /\ (Ended(r) /\ Attached(r)) => (r.local = "removed" <=> BothSucceeded(r))
           /\ NewlyRemoved(r) => \E a \in applications : a.id = r.created]_vars

(***************************************************************************)
(* C24, amended.  The local copy is removed only if the upload and the     *)
(* Application write both succeeded, and is removed whenever they did and  *)
(* the removal itself did not fail, which is exactly when the request is   *)
(* answered 201; on every other terminal path on which a file was attached *)
(* (validation 400, decode fault, 404, upload failure, persistence         *)
(* failure, removal failure) it is left in place; it is never removed      *)
(* before the Application record exists, and no copy exists for a request  *)
(* without a file or stopped by identity verification.                     *)
(***************************************************************************)
C24_RemovedAfterBothUnlessCleanupFails ==
    [][\A r \in inflight' :
           /\ (Ended(r) /\ Attached(r)) =>
                  /\ r.local = "removed" <=> (BothSucceeded(r) /\ r.req.ext.unlinkOk)
                  /\ r.local = "removed" <=> (~r.thrown /\ r.res.status = 201)
                  /\ r.local # "removed" => r.local = "stored"
           /\ r.local = "removed" => Ended(r) /\ BothSucceeded(r)
           /\ NewlyRemoved(r) =>
                  \E a \in applications : a.id = r.created /\ a.userResume = r.url
           /\ Attached(r) <=>
                  (r.req.file # Absent /\ PassesIdentity("applyToJob", r.req.token))]_vars

\* a submission confirmed: its record is stored and the local copy is gone
C24_Witness ==
    \E r \in inflight :
        /\ Ended(r)
        /\ r.req.file # Absent
        /\ r.local = "removed"
        /\ r.res.status = 201
        /\ CreatedBy(r) # {}

====
